---- MODULE Spec2Model ----
(***************************************************************************)
(* Pilot-Weather front end: the dashboard, the flight detail view, the     *)
(* airport autocomplete, the toaster, the App shell and the pure helpers   *)
(* (thunderstorm detection, fatigue windowing, AI report parsing).         *)
(* Strings are sequences of one-character strings so that trim, upper-case *)
(* and substring search are computed, not assumed.                         *)
(***************************************************************************)
EXTENDS Integers, Sequences, FiniteSets, TLC

VARIABLES
    ts_pc, ts_metar, ts_detail, ts_map,
    pr_pc, pr_report, pr_sections,
    fw_pc, fw_flights, fw_arg, fw_warnings,
    tk_now, tk_toasts, tk_dismissing, tk_timers, tk_slideTimers, tk_nextId,
    tk_clicks,
    ap_variant, ap_session, ap_getSession, ap_reply, ap_subscribed,
    ap_lastEvent, ap_changes, ap_user, ap_loading, ap_briefingPending,
    ac_value, ac_airports, ac_isOpen, ac_isLoading, ac_isValid, ac_reported,
    ac_timer, ac_inflight,
    db_rows, db_nextId, db_inflight, db_replies, db_reqNo, db_log,
    ds_event, ds_mounted, ds_loading, ds_user, ds_authEvents, ds_departure,
    ds_arrival,
    ds_intermediates, ds_plannedAt, ds_picker, ds_departureValid,
    ds_arrivalValid,
    ds_savingFlight, ds_loadingFlights, ds_upcomingFlights, ds_pastFlights,
    ds_reloads,
    ds_deletingFlightId, ds_searchDeparture, ds_searchArrival,
    ds_searchIntermediates, ds_searchDepartureValid, ds_searchArrivalValid,
    ds_planeAnimating, ds_toasts, ds_navs, ds_timers,
    ds_timerNo, ds_clicks, ds_now,
    fd_event, fd_mounted, fd_id, fd_routeParam, fd_activeTab, fd_loadingFlight,
    fd_flight, fd_briefingLoading, fd_briefing, fd_lastRefreshedAt, fd_window,
    fd_calls, fd_callNo, fd_toasts, fd_done,
    mp_event, mp_mounted, mp_route, mp_L, mp_cluster, mp_fetch, mp_list,
    mp_airports, mp_metars, mp_map,
    pg_pc, pg_lat, pg_lon, pg_radius, pg_points,
    fq_pc, fq_rows, fq_flightId, fq_ok, fq_detail, fq_badge,
    rl_pc, rl_rows, rl_now, rl_data, rl_upcoming, rl_past,
    rm_event, rm_mounted, rm_L, rm_timer, rm_retryCount, rm_maps, rm_nextMap, rm_routeMap, rm_error

tsVars == <<ts_pc, ts_metar, ts_detail, ts_map>>
prVars == <<pr_pc, pr_report, pr_sections>>

fwVars == <<fw_pc, fw_flights, fw_arg, fw_warnings>>

tkVars == <<tk_now, tk_toasts, tk_dismissing, tk_timers, tk_slideTimers,
           tk_nextId, tk_clicks>>

apVars == <<ap_variant, ap_session, ap_getSession, ap_reply, ap_subscribed,
           ap_lastEvent, ap_changes, ap_user, ap_loading, ap_briefingPending>>

acVars == <<ac_value, ac_airports, ac_isOpen, ac_isLoading, ac_isValid,
           ac_reported, ac_timer, ac_inflight>>

dbVars == <<db_rows, db_nextId, db_inflight, db_replies, db_reqNo, db_log>>

dsVars == <<ds_event, ds_mounted, ds_loading, ds_user, ds_authEvents,
            ds_departure,
            ds_arrival, ds_intermediates, ds_plannedAt, ds_picker,
            ds_departureValid,
            ds_arrivalValid, ds_savingFlight, ds_loadingFlights,
            ds_upcomingFlights, ds_pastFlights, ds_reloads,
            ds_deletingFlightId,
            ds_searchDeparture, ds_searchArrival, ds_searchIntermediates,
            ds_searchDepartureValid, ds_searchArrivalValid, ds_planeAnimating,
            ds_toasts, ds_navs, ds_timers, ds_timerNo,
            ds_clicks, ds_now>>

fdVars == <<fd_event, fd_mounted, fd_id, fd_routeParam, fd_activeTab,
            fd_loadingFlight, fd_flight, fd_briefingLoading, fd_briefing,
            fd_lastRefreshedAt, fd_window, fd_calls, fd_callNo, fd_toasts,
            fd_done>>

mpVars == <<mp_event, mp_mounted, mp_route, mp_L, mp_cluster, mp_fetch,
            mp_list, mp_airports, mp_metars, mp_map>>

pgVars == <<pg_pc, pg_lat, pg_lon, pg_radius, pg_points>>

fqVars == <<fq_pc, fq_rows, fq_flightId, fq_ok, fq_detail, fq_badge>>

rlVars == <<rl_pc, rl_rows, rl_now, rl_data, rl_upcoming, rl_past>>

rmVars == <<rm_event, rm_mounted, rm_L, rm_timer, rm_retryCount, rm_maps, rm_nextMap, rm_routeMap, rm_error>>

vars == <<tsVars, prVars, fwVars, tkVars, apVars, acVars, dbVars, dsVars,
          fdVars,
          mpVars,
          pgVars,
          fqVars,
          rlVars,
          rmVars>>

\* everything but the two pages and the flights table
notPages == <<tsVars, prVars, fwVars, tkVars, apVars, acVars, mpVars, pgVars, fqVars, rlVars, rmVars>>

\* what a dashboard step that does not navigate leaves alone
notDs == <<fdVars, notPages>>

notMp == <<tsVars, prVars, fwVars, tkVars, apVars, acVars,
          dbVars, dsVars, fdVars, pgVars, fqVars, rlVars, rmVars>>
notPg == <<tsVars, prVars, fwVars, tkVars, apVars, acVars,
          dbVars, dsVars, fdVars, mpVars, fqVars, rlVars, rmVars>>
notFq == <<tsVars, prVars, fwVars, tkVars, apVars, acVars,
          dbVars, dsVars, fdVars, mpVars, pgVars, rlVars, rmVars>>
notRl == <<tsVars, prVars, fwVars, tkVars, apVars, acVars,
          dbVars, dsVars, fdVars, mpVars, pgVars, fqVars, rmVars>>
notRm == <<tsVars, prVars, fwVars, tkVars, apVars, acVars,
          dbVars, dsVars, fdVars, mpVars, pgVars, fqVars, rlVars>>
notTs == <<prVars, fwVars, tkVars, apVars, acVars,
          dbVars, dsVars, fdVars, mpVars, pgVars, fqVars, rlVars, rmVars>>
notPr == <<tsVars, fwVars, tkVars, apVars, acVars,
          dbVars, dsVars, fdVars, mpVars, pgVars, fqVars, rlVars, rmVars>>
notFw == <<tsVars, prVars, tkVars, apVars, acVars,
          dbVars, dsVars, fdVars, mpVars, pgVars, fqVars, rlVars, rmVars>>
notTk == <<tsVars, prVars, fwVars, apVars, acVars,
          dbVars, dsVars, fdVars, mpVars, pgVars, fqVars, rlVars, rmVars>>
notAp == <<tsVars, prVars, fwVars, tkVars, acVars,
          dbVars, dsVars, fdVars, mpVars, pgVars, fqVars, rlVars, rmVars>>
notAc == <<tsVars, prVars, fwVars, tkVars, apVars,
          dbVars, dsVars, fdVars, mpVars, pgVars, fqVars, rlVars, rmVars>>

(***************************************************************************)
(* Values shared by the whole model                                        *)
(***************************************************************************)
Null == "null"

Min(a, b) == IF a <= b THEN a ELSE b

(***************************************************************************)
(* JavaScript string primitives over sequences of characters               *)
(***************************************************************************)
LowerLetters == <<"a","b","c","d","e","f","g","h","i","j","k","l","m",
                  "n","o","p","q","r","s","t","u","v","w","x","y","z">>
UpperLetters == <<"A","B","C","D","E","F","G","H","I","J","K","L","M",
                  "N","O","P","Q","R","S","T","U","V","W","X","Y","Z">>
Digits == {"0","1","2","3","4","5","6","7","8","9"}
WhiteSpace == {" ", "\t"}

ToUpperChar(c) ==
    IF \E i \in 1..26 : LowerLetters[i] = c
    THEN UpperLetters[CHOOSE i \in 1..26 : LowerLetters[i] = c]
    ELSE c

\* String.prototype.toUpperCase
ToUpperCase(s) == [i \in 1..Len(s) |-> ToUpperChar(s[i])]

RECURSIVE TrimStart(_)
TrimStart(s) ==
    IF s # <<>> /\ Head(s) \in WhiteSpace THEN TrimStart(Tail(s)) ELSE s

RECURSIVE TrimEnd(_)
TrimEnd(s) ==
    IF s # <<>> /\ s[Len(s)] \in WhiteSpace
    THEN TrimEnd(SubSeq(s, 1, Len(s) - 1)) ELSE s

\* String.prototype.trim
Trim(s) == TrimEnd(TrimStart(s))

\* String.prototype.startsWith
StartsWith(s, p) == Len(s) >= Len(p) /\ SubSeq(s, 1, Len(p)) = p

\* String.prototype.includes, scanning the start positions left to right
RECURSIVE IncludesFrom(_, _, _)
IncludesFrom(s, sub, i) ==
    IF i + Len(sub) - 1 > Len(s) THEN FALSE
    ELSE IF SubSeq(s, i, i + Len(sub) - 1) = sub THEN TRUE
    ELSE IncludesFrom(s, sub, i + 1)

Includes(s, sub) == IncludesFrom(s, sub, 1)

\* Array.prototype.some over a sequence of indicator strings
RECURSIVE SomeIncluded(_, _)
SomeIncluded(s, inds) ==
    IF inds = <<>> THEN FALSE
    ELSE IF Includes(s, Head(inds)) THEN TRUE
    ELSE SomeIncluded(s, Tail(inds))

(***************************************************************************)
(* hasThunderstorm: flight detail view and map page                        *)
(***************************************************************************)
thunderstormIndicators ==
    << <<"T","S">>,
       <<"T","H","U","N","D","E","R","S","T","O","R","M">>,
       <<"T","E","M","P","O">>,
       <<"T","S","R","A">>,
       <<"T","S","S","N">>,
       <<"T","S","G","R">>,
       <<"T","S","G","S">>,
       <<"C","B">>,
       <<"T","C","U">>,
       <<"F","C">>,
       <<"T","O","R","N","A","D","O">>,
       <<"W","A","T","E","R","S","P","O","U","T">> >>

mapPageIndicators ==
    << <<"T","S">>,
       <<"T","H","U","N","D","E","R","S","T","O","R","M">>,
       <<"T","E","M","P","O">> >>

\* a METAR value: defined says whether the object exists, hasText whether
\* its raw_text property does
NoMetar == [defined |-> FALSE, hasText |-> FALSE, station |-> "", raw_text |-> <<>>]
MetarNoText == [defined |-> TRUE, hasText |-> FALSE, station |-> "VABB", raw_text |-> <<>>]
MetarOf(t) == [defined |-> TRUE, hasText |-> TRUE, station |-> "VABB", raw_text |-> t]

\* !metar || !metar.raw_text
MetarFalsy(metar) ==
    \/ ~metar.defined
    \/ ~metar.hasText
    \/ metar.raw_text = <<>>

\* the flight detail view's hasThunderstorm
hasThunderstorm(metar) ==
    IF MetarFalsy(metar) THEN FALSE
    ELSE SomeIncluded(ToUpperCase(metar.raw_text), thunderstormIndicators)

\* the map page's hasThunderstorm
hasThunderstormMapPage(metar) ==
    IF MetarFalsy(metar) THEN FALSE
    ELSE SomeIncluded(ToUpperCase(metar.raw_text), mapPageIndicators)

MaxTokens == 2

MetarTokens ==
    { <<"t","s">>, <<"C","B">>, <<"c","b">>, <<"T","c","u">>, <<"F","C">>,
      <<"R","A">>, <<" ">>, <<"T">>, <<"S">>, <<"K","T">>,
      <<"T","e","m","p","o">>, <<"B","K","N","0","3","0">> }

RECURSIVE TokenTexts(_)
TokenTexts(n) ==
    IF n = 0 THEN { <<>> }
    ELSE LET shorter == TokenTexts(n - 1)
         IN shorter \cup { t \o tok : t \in shorter, tok \in MetarTokens }

MetarInputs ==
    { NoMetar, MetarNoText } \cup { MetarOf(t) : t \in TokenTexts(MaxTokens) }

InitThunder ==
    /\ ts_pc = "input"
    /\ ts_metar \in MetarInputs
    /\ ts_detail = FALSE
    /\ ts_map = FALSE

CheckThunderstorm ==
    /\ ts_pc = "input"
    /\ ts_pc' = "done"
    /\ ts_detail' = hasThunderstorm(ts_metar)
    /\ ts_map' = hasThunderstormMapPage(ts_metar)
    /\ UNCHANGED ts_metar
    /\ UNCHANGED notTs

IdleThunder ==
    /\ ts_pc = "idle"
    /\ ts_metar = NoMetar
    /\ ts_detail = FALSE
    /\ ts_map = FALSE

(***************************************************************************)
(* parseAIReport: the detailed report split into numbered sections         *)
(***************************************************************************)
NL == "\n"

\* String.prototype.split("\n"): cur is the piece being read
RECURSIVE SplitFrom(_, _, _)
SplitFrom(s, i, cur) ==
    IF i > Len(s) THEN << cur >>
    ELSE IF s[i] = NL THEN << cur >> \o SplitFrom(s, i + 1, <<>>)
    ELSE SplitFrom(s, i + 1, Append(cur, s[i]))

SplitLines(s) == SplitFrom(s, 1, <<>>)

\* number of leading characters of s, from position i, that lie in set
RECURSIVE RunLength(_, _, _)
RunLength(s, i, set) ==
    IF i <= Len(s) /\ s[i] \in set THEN 1 + RunLength(s, i + 1, set) ELSE 0

\* length of the prefix matched by /^\d+\.\s+/, 0 when there is no match
HeaderPrefixLen(line) ==
    LET d == RunLength(line, 1, Digits)
        w == RunLength(line, d + 2, WhiteSpace)
    IN IF d >= 1 /\ Len(line) >= d + 1 /\ line[d + 1] = "." /\ w >= 1
       THEN d + 1 + w ELSE 0

\* line.match(/^\d+\.\s+(.+)/): the greedy \s+ may give one character back
MatchesHeader(line) ==
    LET p == HeaderPrefixLen(line)
        d == RunLength(line, 1, Digits)
    IN p > 0 /\ (Len(line) > p \/ p - d - 1 >= 2)

\* line.replace(/^\d+\.\s+/, "")
StripHeaderPrefix(line) ==
    SubSeq(line, HeaderPrefixLen(line) + 1, Len(line))

TripleEquals == <<"=","=","=">>
ImportantPrefix == <<"I","M","P","O","R","T","A","N","T",":">>

\* the loop body of parseAIReport for one line; st = [sections, current]
ParseLine(st, rawLine) ==
    LET line == Trim(rawLine)
    IN IF MatchesHeader(line)
       THEN [sections |-> IF st.current.title # <<>>
                          THEN Append(st.sections, st.current)
                          ELSE st.sections,
             current |-> [title |-> StripHeaderPrefix(line), content |-> <<>>]]
       ELSE IF line # <<>> /\ ~StartsWith(line, TripleEquals)
                           /\ ~StartsWith(line, ImportantPrefix)
       THEN [sections |-> st.sections,
             current |-> [title |-> st.current.title,
                          content |-> IF st.current.content # <<>>
                                      THEN st.current.content \o <<NL>> \o line
                                      ELSE line]]
       ELSE st

RECURSIVE ParseLoop(_, _, _)
ParseLoop(lines, i, st) ==
    IF i > Len(lines) THEN st
    ELSE ParseLoop(lines, i + 1, ParseLine(st, lines[i]))

\* the final push left out: the last section is lost
PushLastDropped(st) == st.sections

\* the push after the loop ("Add the last section")
PushLast(st) ==
    IF st.current.title # <<>> THEN Append(st.sections, st.current)
    ELSE st.sections

parseAIReport(report) ==
    PushLast(ParseLoop(SplitLines(report), 1,
                       [sections |-> <<>>,
                        current |-> [title |-> <<>>, content |-> <<>>]]))

MaxLines == 3

ReportLines ==
    { <<"1","."," ","A">>,
      <<" ","2","."," "," ","B"," ">>,
      <<"1","2","."," ","C"," ","d">>,
      <<"x">>,
      <<" ","y"," ","z"," ">>,
      <<>>,
      <<" "," ">>,
      <<"=","=","="," ","R">>,
      <<"I","M","P","O","R","T","A","N","T",":"," ","z">>,
      <<"3",".">>,
      <<"1",".","5">> }

RECURSIVE ReportsOf(_)
ReportsOf(n) ==
    IF n = 1 THEN ReportLines
    ELSE LET shorter == ReportsOf(n - 1)
         IN shorter \cup { r \o <<NL>> \o l : r \in shorter, l \in ReportLines }

ReportInputs == ReportsOf(MaxLines)

InitParse ==
    /\ pr_pc = "input"
    /\ pr_report \in ReportInputs
    /\ pr_sections = <<>>

ParseReport ==
    /\ pr_pc = "input"
    /\ pr_pc' = "done"
    /\ pr_sections' = parseAIReport(pr_report)
    /\ UNCHANGED pr_report
    /\ UNCHANGED notPr

IdleParse ==
    /\ pr_pc = "idle"
    /\ pr_report = <<>>
    /\ pr_sections = <<>>

(***************************************************************************)
(* Dashboard detectFatigueWarnings.  A flight row carries its planned_at   *)
(* as the instant (ms, relative to the time of the call) that the stored   *)
(* timestamp denotes; hasPlanned is false for a null planned_at.           *)
(***************************************************************************)
MsPerHour == 3600000
FatigueWindowHours == 48

\* new Date(f.planned_at).getTime()
PlannedTime(f) == f.planned_at

\* flights.filter((f) => f.planned_at && new Date(f.planned_at) > new Date())
\* builds a new array; now is 0 on the model's time axis
RECURSIVE FilterUpcoming(_)
FilterUpcoming(flights) ==
    IF flights = <<>> THEN <<>>
    ELSE IF Head(flights).hasPlanned /\ PlannedTime(Head(flights)) > 0
         THEN <<Head(flights)>> \o FilterUpcoming(Tail(flights))
         ELSE FilterUpcoming(Tail(flights))

\* the comparator of the sort
ComparePlanned(a, b) ==
    IF ~a.hasPlanned \/ ~b.hasPlanned THEN 0
    ELSE PlannedTime(a) - PlannedTime(b)

\* Array.prototype.sort is stable: f goes after every element it does not
\* compare below
RECURSIVE InsertStable(_, _)
InsertStable(sorted, f) ==
    IF sorted = <<>> THEN <<f>>
    ELSE IF ComparePlanned(f, Head(sorted)) < 0 THEN <<f>> \o sorted
    ELSE <<Head(sorted)>> \o InsertStable(Tail(sorted), f)

RECURSIVE SortFrom(_, _, _)
SortFrom(arr, i, sorted) ==
    IF i > Len(arr) THEN sorted
    ELSE SortFrom(arr, i + 1, InsertStable(sorted, arr[i]))

SortByPlannedAt(arr) == SortFrom(arr, 1, <<>>)

\* the window test with the bound left out: 48 hours exactly is not flagged
WithinWindowExclusive(timeDifference) ==
    timeDifference < FatigueWindowHours * MsPerHour

\* hoursDifference = timeDifference / (1000 * 60 * 60); hoursDifference <= 48
WithinWindow(timeDifference) ==
    timeDifference <= FatigueWindowHours * MsPerHour

\* the loop over adjacent pairs: warnings.add(nextFlight.id)
RECURSIVE AdjacentWarnings(_, _)
AdjacentWarnings(sorted, i) ==
    IF i > Len(sorted) - 1 THEN {}
    ELSE LET currentFlight == sorted[i]
             nextFlight == sorted[i + 1]
             rest == AdjacentWarnings(sorted, i + 1)
         IN IF ~currentFlight.hasPlanned \/ ~nextFlight.hasPlanned THEN rest
            ELSE IF WithinWindow(PlannedTime(nextFlight) - PlannedTime(currentFlight))
                 THEN {nextFlight.id} \cup rest
                 ELSE rest

\* the returned set and the caller's array as the call leaves it (filter copied
\* it, so the in-place sort works on the copy)
detectFatigueWarnings(flights) ==
    [warnings |-> AdjacentWarnings(SortByPlannedAt(FilterUpcoming(flights)), 1),
     flights |-> flights]

MaxFlights == 3

FlightIds == <<"f1", "f2", "f3", "f4", "f5">>

PlannedChoices ==
    { [hasPlanned |-> FALSE, planned_at |-> 0] }
    \cup { [hasPlanned |-> TRUE, planned_at |-> t] :
             t \in { 0 - MsPerHour, 0, MsPerHour, 49 * MsPerHour,
                     49 * MsPerHour + 1, 97 * MsPerHour } }

FlightLists ==
    UNION { { [i \in 1..n |-> [id |-> FlightIds[i],
                               hasPlanned |-> c[i].hasPlanned,
                               planned_at |-> c[i].planned_at]] :
              c \in [1..n -> PlannedChoices] } : n \in 0..MaxFlights }

InitFatigue ==
    /\ fw_pc = "input"
    /\ fw_flights \in FlightLists
    /\ fw_arg = fw_flights
    /\ fw_warnings = {}

DetectFatigue ==
    /\ fw_pc = "input"
    /\ fw_pc' = "done"
    /\ fw_warnings' = detectFatigueWarnings(fw_arg).warnings
    /\ fw_arg' = detectFatigueWarnings(fw_arg).flights
    /\ UNCHANGED fw_flights
    /\ UNCHANGED notFw

IdleFatigue ==
    /\ fw_pc = "idle"
    /\ fw_flights = <<>>
    /\ fw_arg = <<>>
    /\ fw_warnings = {}

(***************************************************************************)
(* Toaster.  Time is counted in milliseconds and advances in steps of      *)
(* ToastTickMs; a timer is a record [id, due] and fires when the clock reaches  *)
(* its due time.  The useToast hook keeps the list of toasts.              *)
(***************************************************************************)
ToastTickMs == 300
DisplayMs == 3000
SlideOutMs == 300

MaxClockMs == 4000
MaxToasts == 2
MaxCloseClicks == 2

\* useToast().toast: a new toast with a fresh id joins the list
HookToast(toasts, id, now) == Append(toasts, [id |-> id, shownAt |-> now])

\* useToast().dismiss: the toast with this id leaves the list
HookDismiss(toasts, id) == SelectSeq(toasts, LAMBDA t : t.id # id)

\* the effect body: one display timer per toast of the list
DisplayTimers(toasts, now) ==
    { [id |-> toasts[i].id, due |-> now + DisplayMs] : i \in DOMAIN toasts }

\* the effect of [toasts, dismiss]: when the list changed, the cleanup clears
\* every display timer and the body starts one for each toast of the new list
ToasterEffect(old, new, timers, now) ==
    IF new = old THEN timers ELSE DisplayTimers(new, now)

InitToaster ==
    /\ tk_now = 0
    /\ tk_toasts = <<>>
    /\ tk_dismissing = {}
    /\ tk_timers = {}
    /\ tk_slideTimers = {}
    /\ tk_nextId = 1
    /\ tk_clicks = 0

\* some component calls toast(...)
ShowToast ==
    /\ tk_nextId <= MaxToasts
    /\ LET new == HookToast(tk_toasts, tk_nextId, tk_now)
       IN /\ tk_toasts' = new
          /\ tk_timers' = ToasterEffect(tk_toasts, new, tk_timers, tk_now)
    /\ tk_nextId' = tk_nextId + 1
    /\ UNCHANGED <<tk_now, tk_dismissing, tk_slideTimers, tk_clicks>>
    /\ UNCHANGED notTk

\* the close button of a toast
handleDismiss ==
    \E i \in DOMAIN tk_toasts :
        /\ tk_clicks < MaxCloseClicks
        /\ tk_clicks' = tk_clicks + 1
        /\ tk_dismissing' = tk_dismissing \cup {tk_toasts[i].id}
        /\ tk_slideTimers' = tk_slideTimers \cup
               { [id |-> tk_toasts[i].id, due |-> tk_now + SlideOutMs] }
        /\ UNCHANGED <<tk_now, tk_toasts, tk_timers, tk_nextId>>
        /\ UNCHANGED notTk

\* a display timer fires: the toast starts to slide out
DisplayTimerFires ==
    \E t \in tk_timers :
        /\ t.due <= tk_now
        /\ tk_timers' = tk_timers \ {t}
        /\ tk_dismissing' = tk_dismissing \cup {t.id}
        /\ tk_slideTimers' = tk_slideTimers \cup
               { [id |-> t.id, due |-> tk_now + SlideOutMs] }
        /\ UNCHANGED <<tk_now, tk_toasts, tk_nextId, tk_clicks>>
        /\ UNCHANGED notTk

\* a slide-out timer fires: dismiss(id), and the effect runs on the new list
SlideTimerFires ==
    \E t \in tk_slideTimers :
        /\ t.due <= tk_now
        /\ tk_slideTimers' = tk_slideTimers \ {t}
        /\ LET new == HookDismiss(tk_toasts, t.id)
           IN /\ tk_toasts' = new
              /\ tk_timers' = ToasterEffect(tk_toasts, new, tk_timers, tk_now)
        /\ UNCHANGED <<tk_now, tk_dismissing, tk_nextId, tk_clicks>>
        /\ UNCHANGED notTk

\* time passes once every due timer has run
TickToaster ==
    /\ tk_now + ToastTickMs <= MaxClockMs
    /\ \A t \in tk_timers \cup tk_slideTimers : t.due > tk_now
    /\ tk_now' = tk_now + ToastTickMs
    /\ UNCHANGED <<tk_toasts, tk_dismissing, tk_timers, tk_slideTimers,
                   tk_nextId, tk_clicks>>
    /\ UNCHANGED notTk

IdleToaster == InitToaster

(***************************************************************************)
(* App: the session check at mount and the auth state listener.  The auth  *)
(* service holds the session; getSession is answered with the session the  *)
(* service holds when it serves the call, and every change of the session  *)
(* is announced to the listener that is registered at that moment.         *)
(* ap_variant tells the function component (part_003) from the class       *)
(* component (App.tsx), which registers its listener after the await.      *)
(***************************************************************************)
NoSession == "none"
Users == {"u1", "u2"}
Sessions == Users \cup {NoSession}

MaxAuthChanges == 3

\* session?.user ?? null
UserOf(session) == IF session = NoSession THEN Null ELSE session

\* what App renders
AppView ==
    IF ap_loading THEN "loading"
    ELSE IF ap_user = Null THEN "login"
    ELSE "dashboard"

InitApp ==
    /\ ap_variant \in {"function", "class"}
    /\ ap_session \in Sessions
    /\ ap_getSession = "called"
    /\ ap_reply = NoSession
    /\ ap_subscribed = (ap_variant = "function")
    /\ ap_lastEvent = [seen |-> FALSE, session |-> NoSession]
    /\ ap_changes = 0
    /\ ap_user = Null
    /\ ap_loading = TRUE
    /\ ap_briefingPending = FALSE

\* the auth client reads the session for the pending getSession call
ServeGetSession ==
    /\ ap_getSession = "called"
    /\ ap_getSession' = "served"
    /\ ap_reply' = ap_session
    /\ UNCHANGED <<ap_variant, ap_session, ap_subscribed, ap_lastEvent,
                   ap_changes, ap_user, ap_loading, ap_briefingPending>>
    /\ UNCHANGED notAp

\* the code after "await supabase.auth.getSession()"
GetSessionResolves ==
    /\ ap_getSession = "served"
    /\ ap_getSession' = "done"
    /\ ap_user' = UserOf(ap_reply)
    /\ ap_loading' = FALSE
    /\ ap_subscribed' = TRUE
    /\ UNCHANGED <<ap_variant, ap_session, ap_reply, ap_lastEvent, ap_changes,
                   ap_briefingPending>>
    /\ UNCHANGED notAp

\* the onAuthStateChange callback
AuthListener(session) ==
    /\ ap_user' = UserOf(session)
    /\ ap_loading' = IF ap_variant = "function" THEN FALSE ELSE ap_loading

\* a sign-in or sign-out: the session changes and the listener, if any, runs
AuthStateChange ==
    \E s \in Sessions :
        /\ s # ap_session
        /\ ap_changes < MaxAuthChanges
        /\ ap_changes' = ap_changes + 1
        /\ ap_session' = s
        /\ ap_lastEvent' = [seen |-> TRUE, session |-> s]
        /\ IF ap_subscribed THEN AuthListener(s)
           ELSE UNCHANGED <<ap_user, ap_loading>>
        /\ UNCHANGED <<ap_variant, ap_getSession, ap_reply, ap_subscribed,
                       ap_briefingPending>>
        /\ UNCHANGED notAp

\* class component only: getBriefing shares the loading flag
ClassGetBriefing ==
    /\ ap_variant = "class"
    /\ AppView = "dashboard"
    /\ ~ap_briefingPending
    /\ ap_briefingPending' = TRUE
    /\ ap_loading' = TRUE
    /\ UNCHANGED <<ap_variant, ap_session, ap_getSession, ap_reply,
                   ap_subscribed, ap_lastEvent, ap_changes, ap_user>>
    /\ UNCHANGED notAp

\* class component only: the finally block of getBriefing
ClassBriefingSettles ==
    /\ ap_briefingPending
    /\ ap_briefingPending' = FALSE
    /\ ap_loading' = FALSE
    /\ UNCHANGED <<ap_variant, ap_session, ap_getSession, ap_reply,
                   ap_subscribed, ap_lastEvent, ap_changes, ap_user>>
    /\ UNCHANGED notAp

IdleApp ==
    /\ ap_variant = "function"
    /\ ap_session = NoSession
    /\ ap_getSession = "idle"
    /\ ap_reply = NoSession
    /\ ap_subscribed = FALSE
    /\ ap_lastEvent = [seen |-> FALSE, session |-> NoSession]
    /\ ap_changes = 0
    /\ ap_user = Null
    /\ ap_loading = TRUE
    /\ ap_briefingPending = FALSE

(***************************************************************************)
(* AirportAutocomplete.  ac_value is the value prop held by the parent,    *)
(* ac_reported the last argument of onValidationChange.  A handler's step  *)
(* includes the effects React runs after the render it causes.  The        *)
(* debounce timer fires some time after it was set; a sent search stays in *)
(* flight until its response arrives, in any order.                        *)
(***************************************************************************)
KJFK == <<"K","J","F","K">>
KLAX == <<"K","L","A","X">>
EGLL == <<"E","G","L","L">>

MaxPendingSearches == 2

\* what the user can make the input read
TypedTexts ==
    { <<>>, <<"K">>, <<"K","J">>, <<"K","J","F">>, KJFK, <<"k","j","f","k">>,
      <<"e","g">> }

\* the lists the airport search can answer with
SearchResults ==
    { <<>>, << [icao |-> KJFK] >>, << [icao |-> KJFK], [icao |-> KLAX] >>,
      << [icao |-> EGLL] >> }

NoTimer == [set |-> FALSE, query |-> <<>>]

\* airports.some((airport) => airport.icao.toUpperCase() === value.toUpperCase())
SomeAirportMatches(airports, value) ==
    \E i \in DOMAIN airports :
        ToUpperCase(airports[i].icao) = ToUpperCase(value)

\* the validity effect ("Check if current value is a valid airport")
ValidityOf(value, airports) ==
    IF Len(value) >= 3 THEN SomeAirportMatches(airports, value) ELSE FALSE

\* the search effect for a new value: its cleanup clears the old timer; a
\* short value clears the list, any other sets the debounce timer
SearchEffectAirports(value, airports) ==
    IF Len(value) < 2 THEN <<>> ELSE airports

SearchEffectTimer(value) ==
    IF Len(value) < 2 THEN NoTimer ELSE [set |-> TRUE, query |-> value]

\* the render after the value prop became v: search effect, then validity effect
ValueChanged(v) ==
    /\ ac_value' = v
    /\ ac_airports' = SearchEffectAirports(v, ac_airports)
    /\ ac_timer' = SearchEffectTimer(v)
    /\ ac_isValid' = ValidityOf(v, SearchEffectAirports(v, ac_airports))
    /\ ac_reported' = ValidityOf(v, SearchEffectAirports(v, ac_airports))

InitAutocomplete ==
    /\ ac_value = <<>>
    /\ ac_airports = <<>>
    /\ ac_isOpen = FALSE
    /\ ac_isLoading = FALSE
    /\ ac_isValid = FALSE
    /\ ac_reported = FALSE
    /\ ac_timer = NoTimer
    /\ ac_inflight = {}

\* handleInputChange: onChange(e.target.value.toUpperCase())
handleInputChange ==
    \E text \in TypedTexts :
        /\ text # ac_value
        /\ IF ToUpperCase(text) # ac_value
           THEN ValueChanged(ToUpperCase(text))
           ELSE UNCHANGED <<ac_value, ac_airports, ac_timer, ac_isValid, ac_reported>>
        /\ UNCHANGED <<ac_isOpen, ac_isLoading, ac_inflight>>
        /\ UNCHANGED notAc

\* handleAirportSelect: a click on a row of the open dropdown
handleAirportSelect ==
    \E i \in DOMAIN ac_airports :
        /\ ac_isOpen /\ ~ac_isLoading
        /\ ac_isOpen' = FALSE
        /\ IF ac_airports[i].icao # ac_value
           THEN ValueChanged(ac_airports[i].icao)
           ELSE /\ ac_isValid' = TRUE
                /\ ac_reported' = TRUE
                /\ UNCHANGED <<ac_value, ac_airports, ac_timer>>
        /\ UNCHANGED <<ac_isLoading, ac_inflight>>
        /\ UNCHANGED notAc

\* handleClear: the clear button, shown while the value is not empty
handleClear ==
    /\ ac_value # <<>>
    /\ ValueChanged(<<>>)
    /\ UNCHANGED <<ac_isOpen, ac_isLoading, ac_inflight>>
    /\ UNCHANGED notAc

\* the parent resets its field (Dashboard saveFlight: setDeparture(""))
ParentResetsValue ==
    /\ ac_value # <<>>
    /\ ValueChanged(<<>>)
    /\ UNCHANGED <<ac_isOpen, ac_isLoading, ac_inflight>>
    /\ UNCHANGED notAc

\* onFocus={() => value.length >= 2 && setIsOpen(true)}
FocusInput ==
    /\ Len(ac_value) >= 2
    /\ ~ac_isOpen
    /\ ac_isOpen' = TRUE
    /\ UNCHANGED <<ac_value, ac_airports, ac_isLoading, ac_isValid, ac_reported,
                   ac_timer, ac_inflight>>
    /\ UNCHANGED notAc

\* handleClickOutside
ClickOutside ==
    /\ ac_isOpen
    /\ ac_isOpen' = FALSE
    /\ UNCHANGED <<ac_value, ac_airports, ac_isLoading, ac_isValid, ac_reported,
                   ac_timer, ac_inflight>>
    /\ UNCHANGED notAc

\* the debounce timer fires: setIsLoading(true) and the fetch is sent
DebounceFires ==
    /\ ac_timer.set
    /\ Cardinality(ac_inflight) < MaxPendingSearches
    /\ ac_timer' = NoTimer
    /\ ac_isLoading' = TRUE
    /\ ac_inflight' = ac_inflight \cup {ac_timer.query}
    /\ UNCHANGED <<ac_value, ac_airports, ac_isOpen, ac_isValid, ac_reported>>
    /\ UNCHANGED notAc

\* a search response arrives: setAirports(data), setIsOpen(data.length > 0),
\* then the validity effect on the new list
SearchResponds ==
    \E q \in ac_inflight : \E data \in SearchResults :
        /\ ac_inflight' = ac_inflight \ {q}
        /\ ac_airports' = data
        /\ ac_isOpen' = (Len(data) > 0)
        /\ ac_isLoading' = FALSE
        /\ ac_isValid' = ValidityOf(ac_value, data)
        /\ ac_reported' = ValidityOf(ac_value, data)
        /\ UNCHANGED <<ac_value, ac_timer>>
        /\ UNCHANGED notAc

\* a search fails: the catch block, then the validity effect
SearchFails ==
    \E q \in ac_inflight :
        /\ ac_inflight' = ac_inflight \ {q}
        /\ ac_airports' = <<>>
        /\ ac_isOpen' = FALSE
        /\ ac_isLoading' = FALSE
        /\ ac_isValid' = ValidityOf(ac_value, <<>>)
        /\ ac_reported' = ValidityOf(ac_value, <<>>)
        /\ UNCHANGED <<ac_value, ac_timer>>
        /\ UNCHANGED notAc

IdleAutocomplete == InitAutocomplete

(***************************************************************************)
(* The flights table of the hosted database, as the client sees it.  A     *)
(* request is in flight from the moment it is sent until the server serves *)
(* it; its reply is then in flight until the client's continuation runs.   *)
(***************************************************************************)
MaxRows == 3
MaxRequests == 3

\* row ids are positive integers; NoId stands for the absence of an id
NoId == 0

NoMids == [isNull |-> TRUE, list |-> <<>>]
NoRow == [id |-> NoId, user_id |-> "", departure |-> <<>>, arrival |-> <<>>,
          intermediates |-> NoMids, hasPlanned |-> FALSE, planned_at |-> 0]

\* a request to the flights table
DbRequest(no, kind, origin, uid, id, row, after) ==
    [no |-> no, kind |-> kind, origin |-> origin, uid |-> uid, id |-> id,
     row |-> row, after |-> after]

\* rows of one user in the order of .order("planned_at", {ascending: true,
\* nullsFirst: false}); rows with equal keys come in id order
RowBefore(a, b) ==
    \/ a.hasPlanned /\ ~b.hasPlanned
    \/ a.hasPlanned /\ b.hasPlanned /\ a.planned_at < b.planned_at
    \/ a.hasPlanned = b.hasPlanned
         /\ (a.hasPlanned => a.planned_at = b.planned_at) /\ a.id < b.id

RECURSIVE OrderedRows(_)
OrderedRows(rows) ==
    IF rows = {} THEN <<>>
    ELSE LET first == CHOOSE r \in rows : \A o \in rows \ {r} : RowBefore(r, o)
         IN <<first>> \o OrderedRows(rows \ {first})

\* .select(...).eq("user_id", uid).order("planned_at", ...)
SelectByUser(rows, uid) == OrderedRows({ r \in rows : r.user_id = uid })

\* .select("*").eq("id", id).single(): an error unless exactly one row matches
SelectById(rows, id) == OrderedRows({ r \in rows : r.id = id })

\* the flight detail view's query: the user's rows with planned_at after now
SelectUpcomingOfUser(rows, uid, now) ==
    OrderedRows({ r \in rows : r.user_id = uid /\ r.hasPlanned
                                /\ r.planned_at > now })

\* sending a request to the flights table
Send(kind, origin, uid, id, row, after) ==
    /\ db_reqNo <= MaxRequests
    /\ db_inflight' = db_inflight \cup
          { DbRequest(db_reqNo, kind, origin, uid, id, row, after) }
    /\ db_reqNo' = db_reqNo + 1
    /\ db_log' = db_log \cup {kind}

InitDb ==
    /\ db_rows = { [id |-> 1, user_id |-> "u1", departure |-> KLAX,
                     arrival |-> KJFK, intermediates |-> NoMids,
                     hasPlanned |-> TRUE, planned_at |-> 0 - MsPerHour],
                   [id |-> 2, user_id |-> "u1", departure |-> EGLL,
                     arrival |-> KJFK, intermediates |-> NoMids,
                     hasPlanned |-> TRUE, planned_at |-> 2 * MsPerHour] }
    /\ db_nextId = 3
    /\ db_inflight = {}
    /\ db_replies = {}
    /\ db_reqNo = 1
    /\ db_log = {}

(***************************************************************************)
(* FlightDetail: the flight detail view, opened for a saved flight         *)
(* (/flight/:id) or for a typed route (/brief?route=...).  The lookup of   *)
(* airport names is outside the model.                                     *)
(***************************************************************************)
MaxBriefingCalls == 2

\* what the route parameter of the URL can hold once decoded
RouteParams == { <<>>, <<" ">>,
                 <<"E","G","L","L"," ","K","J","F","K">>,
                 <<"E","G","L","L"," "," ","K","L","A","X"," ","K","J","F","K">> }

\* what the backend can answer to analyze-route
HazardLists == { <<>>, <<"turbulence", "icing">> }
MetarLists == { <<>>, <<"EGLL", "KJFK">> }

NoBriefing == [present |-> FALSE, hazards |-> <<>>, metars |-> <<>>,
               hasAlternates |-> FALSE, hasTrack |-> FALSE,
               fatigue_warning |-> FALSE]

BackendBriefings ==
    { [present |-> TRUE, hazards |-> h, metars |-> m, hasAlternates |-> a,
       hasTrack |-> m # <<>>, fatigue_warning |-> FALSE] :
         h \in HazardLists, m \in MetarLists, a \in BOOLEAN }

NoFlight == [present |-> FALSE, isRoute |-> FALSE, id |-> NoId,
             departure |-> <<>>, arrival |-> <<>>, intermediates |-> <<>>,
             hasPlanned |-> FALSE, planned_at |-> 0]

\* the flight object made of a row of the table
FlightOfRow(row) ==
    [present |-> TRUE, isRoute |-> FALSE, id |-> row.id,
     departure |-> row.departure, arrival |-> row.arrival,
     intermediates |-> row.intermediates.list,
     hasPlanned |-> row.hasPlanned, planned_at |-> row.planned_at]

\* text.split(/\s+/) of a trimmed, non-empty text
RECURSIVE SplitWords(_, _, _)
SplitWords(text, i, word) ==
    IF i > Len(text) THEN <<word>>
    ELSE IF text[i] \in WhiteSpace
         THEN IF i > 1 /\ text[i - 1] \in WhiteSpace
              THEN SplitWords(text, i + 1, word)
              ELSE <<word>> \o SplitWords(text, i + 1, <<>>)
         ELSE SplitWords(text, i + 1, Append(word, text[i]))

\* parts.join(" ")
RECURSIVE JoinWords(_)
JoinWords(parts) ==
    IF parts = <<>> THEN <<>>
    ELSE IF Len(parts) = 1 THEN parts[1]
    ELSE parts[1] \o <<" ">> \o JoinWords(Tail(parts))

\* parts.filter(Boolean)
RECURSIVE FilterNonEmpty(_)
FilterNonEmpty(parts) ==
    IF parts = <<>> THEN <<>>
    ELSE IF Head(parts) = <<>> THEN FilterNonEmpty(Tail(parts))
    ELSE <<Head(parts)>> \o FilterNonEmpty(Tail(parts))

\* the temporary flight-like object synthesized from the route parameter
FlightOfRoute(routeParam) ==
    LET parts == SplitWords(routeParam, 1, <<>>)
    IN [present |-> TRUE, isRoute |-> TRUE, id |-> NoId,
        departure |-> parts[1], arrival |-> parts[Len(parts)],
        intermediates |-> SubSeq(parts, 2, Len(parts) - 1),
        hasPlanned |-> FALSE, planned_at |-> 0]

\* the route memo
RouteOf(flight) ==
    IF ~flight.present THEN <<>>
    ELSE JoinWords(FilterNonEmpty(<<flight.departure>> \o flight.intermediates
                                   \o <<flight.arrival>>))

NoWindow == [route |-> 0, loaded |-> FALSE, error |-> FALSE]

\* one invocation of fetchBriefing that has not returned yet
BriefingCall(no, phase, id, airports, data, req) ==
    [no |-> no, phase |-> phase, id |-> id, airports |-> airports,
     data |-> data, req |-> req]

\* the state of the component after the first render and its effects, as a
\* record: the load effect either sends the select, synthesizes the flight
\* from the route parameter (which starts fetchBriefing), fails, or does not
\* run at all
AfterMount(id, routeParam) ==
    LET trimmed == Trim(routeParam)
        flight == IF id = NoId /\ trimmed # <<>>
                  THEN FlightOfRoute(trimmed) ELSE NoFlight
    IN [loadingFlight |-> id # NoId \/ routeParam = <<>>,
        selects |-> id # NoId,
        flight |-> flight,
        fetches |-> RouteOf(flight) # <<>>,
        toasts |-> IF id = NoId /\ routeParam # <<>> /\ trimmed = <<>>
                   THEN <<"Failed to load flight">> ELSE <<>>]

fdSendVars == <<db_inflight, db_reqNo, db_log>>

\* history: a fetchBriefing call that has returned, with the briefing it
\* stored when it succeeded
Completed(no, ok, data) == [no |-> no, ok |-> ok, data |-> data]

\* fetchBriefing up to its await, for a non-empty route: setBriefingLoading,
\* the reset of the state shared with the map, and the POST
StartFetch(route, id) ==
    /\ fd_callNo <= MaxBriefingCalls
    /\ fd_briefingLoading' = TRUE
    /\ fd_window' = NoWindow
    /\ fd_calls' = fd_calls \cup
          { BriefingCall(fd_callNo, "fetch", id,
                         SplitWords(Trim(route), 1, <<>>), NoBriefing, 0) }
    /\ fd_callNo' = fd_callNo + 1

\* the component is mounted for this URL and its effects run
MountDetail(id, routeParam) ==
    LET m == AfterMount(id, routeParam)
    IN /\ fd_event' = "mount"
       /\ fd_mounted' = TRUE
       /\ fd_id' = id
       /\ fd_routeParam' = routeParam
       /\ fd_activeTab' = "brief"
       /\ fd_loadingFlight' = m.loadingFlight
       /\ fd_flight' = m.flight
       /\ fd_briefing' = NoBriefing
       /\ fd_lastRefreshedAt' = [set |-> FALSE, at |-> 0]
       /\ fd_done' = <<>>
       /\ fd_toasts' = m.toasts
       /\ IF m.fetches
          THEN StartFetch(RouteOf(m.flight), id)
          ELSE /\ fd_briefingLoading' = FALSE
               /\ UNCHANGED <<fd_window, fd_calls, fd_callNo>>
       /\ IF m.selects
          THEN Send("select", "load", Null, id, NoRow, 0)
          ELSE UNCHANGED fdSendVars

DetailState(mounted) ==
    /\ fd_event = "none"
    /\ fd_mounted = mounted
    /\ fd_id = NoId
    /\ fd_routeParam = <<>>
    /\ fd_activeTab = "brief"
    /\ fd_loadingFlight = TRUE
    /\ fd_flight = NoFlight
    /\ fd_briefingLoading = FALSE
    /\ fd_briefing = NoBriefing
    /\ fd_lastRefreshedAt = [set |-> FALSE, at |-> 0]
    /\ fd_done = <<>>
    /\ fd_window = NoWindow
    /\ fd_calls = {}
    /\ fd_callNo = 1
    /\ fd_toasts = <<>>

\* no page is open yet
InitDetail == DetailState(FALSE)

\* the view is opened by its URL
OpenDetail ==
    \E id \in {NoId, 1, 2, 3} : \E routeParam \in RouteParams :
        /\ ~fd_mounted /\ ~ds_mounted
        /\ id # NoId => routeParam = <<>>
        /\ MountDetail(id, routeParam)
        /\ UNCHANGED <<db_rows, db_nextId, db_replies>>
        /\ UNCHANGED dsVars
        /\ UNCHANGED notPages

\* the URLs a history traversal can lead to while the view stays mounted
\* (both routes render FlightDetail, so its state is kept)
UrlTargets ==
    { <<2, <<>>>>, <<NoId, <<"K","L","A","X"," ","K","J","F","K">>>> }

\* id or search change under the mounted view: the load effect runs again,
\* and a synthesized flight with another route runs the route effect
\* (followed while briefing calls remain to be issued)
UrlChanges ==
    \E target \in UrlTargets :
        LET id == target[1]
            routeParam == target[2]
            m == AfterMount(id, routeParam)
            flight == IF m.flight.present THEN m.flight ELSE fd_flight
        IN /\ fd_mounted
           /\ fd_callNo <= MaxBriefingCalls
           /\ <<id, routeParam>> # <<fd_id, fd_routeParam>>
           /\ fd_event' = "urlChange"
           /\ fd_id' = id
           /\ fd_routeParam' = routeParam
           /\ fd_loadingFlight' = m.selects
           /\ fd_flight' = flight
           /\ fd_toasts' = m.toasts
           /\ IF RouteOf(flight) # RouteOf(fd_flight) /\ RouteOf(flight) # <<>>
              THEN StartFetch(RouteOf(flight), id)
              ELSE UNCHANGED <<fd_briefingLoading, fd_window, fd_calls,
                               fd_callNo>>
           /\ IF m.selects
              THEN Send("select", "load", Null, id, NoRow, 0)
              ELSE UNCHANGED fdSendVars
           /\ UNCHANGED <<fd_mounted, fd_activeTab, fd_briefing,
                          fd_lastRefreshedAt, fd_done>>
           /\ UNCHANGED <<db_rows, db_nextId, db_replies>>
           /\ UNCHANGED dsVars
           /\ UNCHANGED notPages

\* the server serves the detail view's select: .single() is an error unless
\* exactly one row matches
ServeLoad ==
    \E req \in db_inflight : \E ok \in BOOLEAN :
        /\ req.kind = "select" /\ req.origin = "load"
        /\ db_inflight' = db_inflight \ {req}
        /\ LET found == SelectById(db_rows, req.id)
           IN db_replies' = db_replies \cup
                { [no |-> req.no, kind |-> "select", origin |-> req.origin,
                   uid |-> req.uid, id |-> req.id,
                   ok |-> ok /\ Len(found) = 1,
                   data |-> IF ok /\ Len(found) = 1 THEN found ELSE <<>>] }
        /\ UNCHANGED <<db_rows, db_nextId, db_reqNo, db_log>>
        /\ UNCHANGED <<dsVars, fdVars>>
        /\ UNCHANGED notPages

\* load() after its await: setFlight and the effects of the new route, or the
\* catch block; then the finally block
LoadSettles ==
    \E rep \in db_replies :
        /\ rep.kind = "select" /\ rep.origin = "load"
        /\ fd_event' = "loadSettles"
        /\ db_replies' = db_replies \ {rep}
        /\ IF rep.ok
           THEN /\ fd_flight' = FlightOfRow(rep.data[1])
                /\ fd_toasts' = <<>>
                /\ IF /\ RouteOf(FlightOfRow(rep.data[1])) # RouteOf(fd_flight)
                      /\ RouteOf(FlightOfRow(rep.data[1])) # <<>>
                   THEN StartFetch(RouteOf(FlightOfRow(rep.data[1])), fd_id)
                   ELSE UNCHANGED <<fd_briefingLoading, fd_window, fd_calls,
                                    fd_callNo>>
           ELSE /\ fd_toasts' = <<"Failed to load flight">>
                /\ UNCHANGED <<fd_flight, fd_briefingLoading, fd_window,
                               fd_calls, fd_callNo>>
        /\ fd_loadingFlight' = FALSE
        /\ UNCHANGED <<fd_mounted, fd_id, fd_routeParam, fd_activeTab,
                       fd_briefing, fd_lastRefreshedAt, fd_done>>
        /\ UNCHANGED <<db_rows, db_nextId, db_inflight, db_reqNo, db_log>>
        /\ UNCHANGED dsVars
        /\ UNCHANGED notPages

\* the Refresh button: disabled while briefingLoading or without a route
RefreshClicked ==
    /\ fd_mounted
    /\ ~fd_briefingLoading
    /\ RouteOf(fd_flight) # <<>>
    /\ fd_event' = "fetchBriefing"
    /\ fd_toasts' = <<>>
    /\ StartFetch(RouteOf(fd_flight), fd_id)
    /\ UNCHANGED <<fd_mounted, fd_id, fd_routeParam, fd_activeTab,
                   fd_loadingFlight, fd_flight, fd_briefing,
                   fd_lastRefreshedAt, fd_done>>
    /\ UNCHANGED <<dbVars, dsVars>>
    /\ UNCHANGED notPages

\* the tab buttons, shown once a briefing is held
SetActiveTab ==
    \E tab \in {"brief", "detailed"} :
        /\ fd_mounted
        /\ fd_briefing.present
        /\ tab # fd_activeTab
        /\ fd_event' = "setActiveTab"
        /\ fd_activeTab' = tab
        /\ fd_toasts' = <<>>
        /\ UNCHANGED <<fd_mounted, fd_id, fd_routeParam, fd_loadingFlight,
                       fd_flight, fd_briefingLoading, fd_briefing,
                       fd_lastRefreshedAt, fd_window, fd_calls, fd_callNo,
                       fd_done>>
        /\ UNCHANGED <<dbVars, dsVars>>
        /\ UNCHANGED notPages

\* the catch block's writes to the state shared with the map
FailedWindowNotLoaded(window) == [window EXCEPT !.error = TRUE]

FailedWindow(window) == [window EXCEPT !.error = TRUE, !.loaded = TRUE]

\* fetchBriefing after the POST settles.  A failure runs the catch block; a
\* success writes the state shared with the map and then either stores the
\* briefing or, for a saved flight, awaits detectFatigueWarning, which asks
\* for the signed-in user and sends its select
BriefingArrives ==
    \E call \in fd_calls : \E ok \in BOOLEAN : \E data \in BackendBriefings :
      \E authUser \in {"u1", Null} :
        /\ call.phase = "fetch"
        /\ ok \/ (data = CHOOSE d \in BackendBriefings : TRUE)
        /\ (ok /\ call.id # NoId) \/ authUser = Null
        /\ fd_event' = "briefingArrives"
        /\ IF ~ok
           THEN /\ fd_toasts' = <<"Briefing failed">>
                /\ fd_window' = FailedWindow(fd_window)
                /\ fd_briefingLoading' = FALSE
                /\ fd_calls' = fd_calls \ {call}
                /\ fd_done' = Append(fd_done,
                                     Completed(call.no, FALSE, NoBriefing))
                /\ UNCHANGED <<fd_briefing, fd_lastRefreshedAt, dbVars>>
           ELSE /\ fd_window' = [route |-> IF data.hasTrack THEN 2 ELSE 0,
                                 loaded |-> TRUE,
                                 error |-> IF data.hasTrack
                                           THEN fd_window.error ELSE TRUE]
                /\ IF call.id # NoId
                   THEN /\ Send("select", "fatigue", authUser, call.id, NoRow,
                             ds_now)
                        /\ fd_calls' = (fd_calls \ {call}) \cup
                              { [call EXCEPT !.phase = "fatigue",
                                             !.data = data,
                                             !.req = db_reqNo] }
                        /\ fd_toasts' = <<>>
                        /\ UNCHANGED <<fd_briefing, fd_lastRefreshedAt, fd_done,
                                       fd_briefingLoading, db_rows, db_nextId,
                                       db_replies>>
                   ELSE /\ fd_briefing' = data
                        /\ fd_lastRefreshedAt' = [set |-> TRUE, at |-> ds_now]
                        /\ fd_done' = Append(fd_done,
                                             Completed(call.no, TRUE, data))
                        /\ fd_toasts' = <<"Refreshed">>
                        /\ fd_briefingLoading' = FALSE
                        /\ fd_calls' = fd_calls \ {call}
                        /\ UNCHANGED dbVars
        /\ UNCHANGED <<fd_mounted, fd_id, fd_routeParam, fd_activeTab,
                       fd_loadingFlight, fd_flight, fd_callNo>>
        /\ UNCHANGED dsVars
        /\ UNCHANGED notPages

\* the server serves detectFatigueWarning's select
ServeFatigue ==
    \E req \in db_inflight : \E ok \in BOOLEAN :
        /\ req.kind = "select" /\ req.origin = "fatigue"
        /\ db_inflight' = db_inflight \ {req}
        /\ db_replies' = db_replies \cup
              { [no |-> req.no, kind |-> "select", origin |-> req.origin,
                 uid |-> req.uid, id |-> req.id, ok |-> ok,
                 data |-> IF ok
                          THEN SelectUpcomingOfUser(db_rows, req.uid, req.after)
                          ELSE <<>>] }
        /\ UNCHANGED <<db_rows, db_nextId, db_reqNo, db_log>>
        /\ UNCHANGED <<dsVars, fdVars>>
        /\ UNCHANGED notPages

\* flights.find((f) => f.id === flightId), as a sequence of at most one row
RECURSIVE FindFlight(_, _)
FindFlight(flights, flightId) ==
    IF flights = <<>> THEN <<>>
    ELSE IF Head(flights).id = flightId THEN <<Head(flights)>>
    ELSE FindFlight(Tail(flights), flightId)

Abs(x) == IF x < 0 THEN 0 - x ELSE x

\* the loop of detectFatigueWarning over the other flights
RECURSIVE OtherWithinWindow(_, _, _)
OtherWithinWindow(flights, flightId, currentTime) ==
    IF flights = <<>> THEN FALSE
    ELSE IF Head(flights).id = flightId \/ ~Head(flights).hasPlanned
         THEN OtherWithinWindow(Tail(flights), flightId, currentTime)
    ELSE IF Abs(currentTime - Head(flights).planned_at)
               <= FatigueWindowHours * MsPerHour
         THEN TRUE
    ELSE OtherWithinWindow(Tail(flights), flightId, currentTime)

\* detectFatigueWarning after its await: whether a warning is returned
detectFatigueWarning(ok, flights, flightId) ==
    LET current == FindFlight(flights, flightId)
    IN /\ ok
       /\ current # <<>>
       /\ current[1].hasPlanned
       /\ OtherWithinWindow(flights, flightId, current[1].planned_at)

\* fetchBriefing after detectFatigueWarning returns
FatigueSettles ==
    \E call \in fd_calls : \E rep \in db_replies :
        /\ call.phase = "fatigue"
        /\ rep.origin = "fatigue" /\ rep.no = call.req
        /\ fd_event' = "fatigueSettles"
        /\ db_replies' = db_replies \ {rep}
        /\ fd_briefing' =
              [call.data EXCEPT !.fatigue_warning =
                   detectFatigueWarning(rep.ok, rep.data, call.id)]
        /\ fd_lastRefreshedAt' = [set |-> TRUE, at |-> ds_now]
        /\ fd_done' = Append(fd_done, Completed(call.no, TRUE, fd_briefing'))
        /\ fd_toasts' = <<"Refreshed">>
        /\ fd_briefingLoading' = FALSE
        /\ fd_calls' = fd_calls \ {call}
        /\ UNCHANGED <<fd_mounted, fd_id, fd_routeParam, fd_activeTab,
                       fd_loadingFlight, fd_flight, fd_window, fd_callNo>>
        /\ UNCHANGED <<db_rows, db_nextId, db_inflight, db_reqNo, db_log>>
        /\ UNCHANGED dsVars
        /\ UNCHANGED notPages

\* one rendered element of the view
Element(kind, text) == [kind |-> kind, text |-> text]

\* briefing.metars.map(...): one element per METAR
RECURSIVE MetarElements(_)
MetarElements(metars) ==
    IF metars = <<>> THEN <<>>
    ELSE <<Element("metar", Head(metars))>> \o MetarElements(Tail(metars))

\* what the view renders below its header for the briefing it holds
RenderBriefing(briefingLoading, briefing, activeTab) ==
    (IF briefingLoading THEN <<Element("loading", "")>> ELSE <<>>)
    \o (IF ~briefingLoading /\ ~briefing.present
        THEN <<Element("empty", "No briefing yet")>> ELSE <<>>)
    \o (IF ~briefing.present THEN <<>>
        ELSE <<Element("tabs", activeTab)>>
             \o (IF activeTab = "brief"
                 THEN <<Element("summary", "")>> ELSE <<>>)
             \o (IF briefing.fatigue_warning
                 THEN <<Element("fatigue", "")>> ELSE <<>>)
             \o (IF activeTab = "detailed"
                 THEN <<Element("detailedReport", "")>> ELSE <<>>)
             \o <<Element("routeMap", "")>>
             \o (IF briefing.metars # <<>>
                 THEN <<Element("metars", "")>> \o MetarElements(briefing.metars)
                 ELSE <<>>)
             \o (IF briefing.hasAlternates
                 THEN <<Element("alternates", "")>> ELSE <<>>))

IdleDetail == DetailState(FALSE)

(***************************************************************************)
(* Dashboard                                                               *)
(***************************************************************************)
\* what the departure and arrival fields can be made to hold
DepartureTexts == { <<>>, <<" ">>, <<" ","e","g","l","l"," ">> }
ArrivalTexts == { <<>>, KJFK }
IntermediateTexts == { <<>>, <<"k","l","a","x"," ">> }
\* the search panel's intermediates are plain text inputs: also two codes
\* typed into one box
SearchIntermediateTexts ==
    IntermediateTexts \cup { <<"K","L","A","X"," ","K","D","E","N">> }
MaxIntermediates == 1
MaxAuthEvents == 2

\* the date and the time input of the DateTimePicker: a day and a minute of
\* the day in local time, counted from the midnight at which the page mounts
NoDate == [empty |-> TRUE, day |-> 0]
NoTime == [empty |-> TRUE, minute |-> 0]
PickerDates == { NoDate, [empty |-> FALSE, day |-> 0] }
PickerTimes == { NoTime, [empty |-> FALSE, minute |-> 60] }
NoPlannedAt == [empty |-> TRUE, at |-> 0]

\* useState(initial.date), useState(initial.time): the picker's own state,
\* taken from value once, when the picker mounts
InitialPicker(value) ==
    IF value.empty THEN [date |-> NoDate, time |-> NoTime]
    ELSE [date |-> [empty |-> FALSE, day |-> value.at \div (24 * MsPerHour)],
          time |-> [empty |-> FALSE,
                    minute |-> (value.at % (24 * MsPerHour))
                                  \div (MsPerHour \div 60)]]

\* the effect of [date, time]: onChange(dt.toISOString()) when both are set,
\* nothing otherwise
PickerEffect(picker, plannedAt) ==
    IF ~picker.date.empty /\ ~picker.time.empty
    THEN [empty |-> FALSE,
          at |-> picker.date.day * 24 * MsPerHour
                   + picker.time.minute * (MsPerHour \div 60)]
    ELSE plannedAt

\* intermediates.map((i) => i.trim().toUpperCase()).filter(Boolean)
RECURSIVE CleanIntermediates(_)
CleanIntermediates(list) ==
    IF list = <<>> THEN <<>>
    ELSE LET c == ToUpperCase(Trim(Head(list)))
         IN IF c = <<>> THEN CleanIntermediates(Tail(list))
            ELSE <<c>> \o CleanIntermediates(Tail(list))

\* the dashboard body is rendered: not loading and a user is present
DashboardShown == ds_mounted /\ ~ds_loading /\ ds_user # Null

\* toast({...}) called once by the step, with this title
Toast(title) == ds_toasts' = <<title>>

\* the step calls toast() not at all
NoToast == ds_toasts' = <<>>

\* a state setter: React ignores it once the component is unmounted
SetState(current, new) == IF ds_mounted THEN new ELSE current

\* the validity test written with && instead of ||
SaveRejectionLax(user, dep, arr, depValid, arrValid, plannedAt) ==
    IF user = Null THEN "Sign in required"
    ELSE IF dep = <<>> \/ arr = <<>> THEN "Missing fields"
    ELSE IF ~depValid /\ ~arrValid THEN "Invalid airports"
    ELSE IF plannedAt.empty THEN "Missing time"
    ELSE ""

\* the checks of saveFlight before the try block: the title of the toast of
\* the first failing check, "" when all pass
SaveRejection(user, dep, arr, depValid, arrValid, plannedAt) ==
    IF user = Null THEN "Sign in required"
    ELSE IF dep = <<>> \/ arr = <<>> THEN "Missing fields"
    ELSE IF ~depValid \/ ~arrValid THEN "Invalid airports"
    ELSE IF plannedAt.empty THEN "Missing time"
    ELSE ""

formVars == <<ds_departure, ds_arrival, ds_intermediates, ds_plannedAt, ds_picker,
              ds_departureValid, ds_arrivalValid>>
searchVars == <<ds_searchDeparture, ds_searchArrival, ds_searchIntermediates,
                ds_searchDepartureValid, ds_searchArrivalValid>>
\* the two lists and the record of the reloadFlights calls that completed
listVars == <<ds_upcomingFlights, ds_pastFlights, ds_reloads>>
sendVars == <<db_inflight, db_reqNo, db_log>>
animVars == <<ds_planeAnimating, ds_timers, ds_timerNo, ds_navs, ds_clicks,
              ds_now>>
authVars == <<ds_mounted, ds_loading, ds_user, ds_authEvents>>

\* the state of a dashboard whose Add Flight form holds these values
DashboardState(mounted, departure, arrival, valid, plannedAt) ==
    /\ ds_event = "mount"
    /\ ds_mounted = mounted
    /\ ds_loading = TRUE
    /\ ds_authEvents = 0
    /\ ds_user = Null
    /\ ds_departure = departure
    /\ ds_arrival = arrival
    /\ ds_intermediates = <<>>
    /\ ds_plannedAt = plannedAt
    /\ ds_picker = InitialPicker(plannedAt)
    /\ ds_departureValid = valid
    /\ ds_arrivalValid = valid
    /\ ds_savingFlight = FALSE
    /\ ds_loadingFlights = FALSE
    /\ ds_upcomingFlights = <<>>
    /\ ds_pastFlights = <<>>
    /\ ds_reloads = <<>>
    /\ ds_deletingFlightId = NoId
    /\ ds_searchDeparture = <<>>
    /\ ds_searchArrival = <<>>
    /\ ds_searchIntermediates = <<>>
    /\ ds_searchDepartureValid = FALSE
    /\ ds_searchArrivalValid = FALSE
    /\ ds_planeAnimating = FALSE
    /\ ds_toasts = <<>>
    /\ ds_navs = <<>>
    /\ ds_timers = {}
    /\ ds_timerNo = 1
    /\ ds_clicks = <<>>
    /\ ds_now = 0

\* the dashboard as mounted
InitDashboard == DashboardState(TRUE, <<>>, <<>>, FALSE, NoPlannedAt)

\* the dashboard once the Add Flight form has been filled in
FilledDashboard ==
    DashboardState(TRUE, <<" ","e","g","l","l"," ">>, KJFK, TRUE,
                   [empty |-> FALSE, at |-> MsPerHour])

\* getInitialSession or the onAuthStateChange callback: setUser, setLoading,
\* and the effect of [user?.id], which reloads the flights of a new user; at
\* most MaxAuthEvents session events are followed
SessionArrives ==
    \E s \in {"u1", NoSession} :
        /\ ds_mounted
        /\ ds_authEvents < MaxAuthEvents
        /\ ds_authEvents' = ds_authEvents + 1
        /\ ds_loading \/ UserOf(s) # ds_user
        /\ ds_event' = "session"
        /\ NoToast
        /\ ds_user' = UserOf(s)
        /\ ds_loading' = FALSE
        /\ IF UserOf(s) # Null /\ UserOf(s) # ds_user
           THEN /\ ds_loadingFlights' = TRUE
                /\ Send("select", "reload", UserOf(s), NoId, NoRow, 0)
           ELSE UNCHANGED <<ds_loadingFlights, sendVars>>
        /\ UNCHANGED <<ds_mounted, formVars, searchVars, listVars, animVars,
                       ds_savingFlight, ds_deletingFlightId, db_rows,
                       db_nextId, db_replies>>
        /\ UNCHANGED notDs

\* onChange of the departure AirportAutocomplete: setDeparture
EditDeparture ==
    \E v \in DepartureTexts :
        /\ DashboardShown
        /\ v # ds_departure
        /\ ds_event' = "edit"
        /\ NoToast
        /\ ds_departure' = v
        /\ UNCHANGED <<ds_arrival, ds_intermediates, ds_plannedAt, ds_picker,
                       ds_departureValid, ds_arrivalValid>>
        /\ UNCHANGED <<authVars, searchVars, listVars, animVars,
                       sendVars, ds_savingFlight, ds_loadingFlights,
                       ds_deletingFlightId, db_rows, db_nextId, db_replies>>
        /\ UNCHANGED notDs

\* onChange of the arrival AirportAutocomplete: setArrival
EditArrival ==
    \E v \in ArrivalTexts :
        /\ DashboardShown
        /\ v # ds_arrival
        /\ ds_event' = "edit"
        /\ NoToast
        /\ ds_arrival' = v
        /\ UNCHANGED <<ds_departure, ds_intermediates, ds_plannedAt, ds_picker,
                       ds_departureValid, ds_arrivalValid>>
        /\ UNCHANGED <<authVars, searchVars, listVars, animVars,
                       sendVars, ds_savingFlight, ds_loadingFlights,
                       ds_deletingFlightId, db_rows, db_nextId, db_replies>>
        /\ UNCHANGED notDs

\* onValidationChange of the two AirportAutocompletes
ReportValidity ==
    \E dv, av \in BOOLEAN :
        /\ DashboardShown
        /\ <<dv, av>> # <<ds_departureValid, ds_arrivalValid>>
        /\ dv = ds_departureValid \/ av = ds_arrivalValid
        /\ ds_event' = "edit"
        /\ NoToast
        /\ ds_departureValid' = dv
        /\ ds_arrivalValid' = av
        /\ UNCHANGED <<ds_departure, ds_arrival, ds_intermediates, ds_plannedAt,
                       ds_picker>>
        /\ UNCHANGED <<authVars, searchVars, listVars, animVars,
                       sendVars, ds_savingFlight, ds_loadingFlights,
                       ds_deletingFlightId, db_rows, db_nextId, db_replies>>
        /\ UNCHANGED notDs

\* addIntermediate, updateIntermediate and removeIntermediate
EditIntermediates ==
    /\ DashboardShown
    /\ ds_event' = "edit"
    /\ NoToast
    /\ \/ /\ Len(ds_intermediates) < MaxIntermediates
          /\ ds_intermediates' = Append(ds_intermediates, <<>>)
       \/ \E idx \in DOMAIN ds_intermediates : \E v \in IntermediateTexts :
            /\ ToUpperCase(v) # ds_intermediates[idx]
            /\ ds_intermediates' =
                  [ds_intermediates EXCEPT ![idx] = ToUpperCase(v)]
       \/ \E idx \in DOMAIN ds_intermediates :
            ds_intermediates' =
                SubSeq(ds_intermediates, 1, idx - 1)
                \o SubSeq(ds_intermediates, idx + 1, Len(ds_intermediates))
    /\ UNCHANGED <<ds_departure, ds_arrival, ds_plannedAt, ds_picker,
                   ds_departureValid,
                   ds_arrivalValid>>
    /\ UNCHANGED <<authVars, searchVars, listVars, animVars,
                   sendVars, ds_savingFlight, ds_loadingFlights,
                   ds_deletingFlightId, db_rows, db_nextId, db_replies>>
    /\ UNCHANGED notDs

\* onChange of the picker's date input: setDate, then the effect
PickDate ==
    \E d \in PickerDates :
        /\ DashboardShown
        /\ d # ds_picker.date
        /\ ds_event' = "edit"
        /\ NoToast
        /\ ds_picker' = [ds_picker EXCEPT !.date = d]
        /\ ds_plannedAt' = PickerEffect(ds_picker', ds_plannedAt)
        /\ UNCHANGED <<ds_departure, ds_arrival, ds_intermediates,
                       ds_departureValid, ds_arrivalValid>>
        /\ UNCHANGED <<authVars, searchVars, listVars, animVars,
                       sendVars, ds_savingFlight, ds_loadingFlights,
                       ds_deletingFlightId, db_rows, db_nextId, db_replies>>
        /\ UNCHANGED notDs

\* onChange of the picker's time input: setTime, then the effect
PickTime ==
    \E m \in PickerTimes :
        /\ DashboardShown
        /\ m # ds_picker.time
        /\ ds_event' = "edit"
        /\ NoToast
        /\ ds_picker' = [ds_picker EXCEPT !.time = m]
        /\ ds_plannedAt' = PickerEffect(ds_picker', ds_plannedAt)
        /\ UNCHANGED <<ds_departure, ds_arrival, ds_intermediates,
                       ds_departureValid, ds_arrivalValid>>
        /\ UNCHANGED <<authVars, searchVars, listVars, animVars,
                       sendVars, ds_savingFlight, ds_loadingFlights,
                       ds_deletingFlightId, db_rows, db_nextId, db_replies>>
        /\ UNCHANGED notDs

\* saveFlight up to its await: a failing check toasts and returns, otherwise
\* setSavingFlight(true) and the insert is sent
saveFlight ==
    LET dep == ToUpperCase(Trim(ds_departure))
        arr == ToUpperCase(Trim(ds_arrival))
        mids == CleanIntermediates(ds_intermediates)
        rejection == SaveRejection(ds_user, dep, arr, ds_departureValid,
                                   ds_arrivalValid, ds_plannedAt)
    IN /\ DashboardShown
       /\ ~ds_savingFlight
       /\ ds_event' = "saveFlight"
       /\ IF rejection # ""
          THEN /\ Toast(rejection)
               /\ UNCHANGED <<ds_savingFlight, sendVars>>
          ELSE /\ ds_savingFlight' = TRUE
               /\ Send("insert", "save", ds_user, NoId,
                       [id |-> NoId, user_id |-> ds_user, departure |-> dep,
                        arrival |-> arr,
                        intermediates |-> IF mids # <<>>
                                          THEN [isNull |-> FALSE, list |-> mids]
                                          ELSE NoMids,
                        hasPlanned |-> TRUE, planned_at |-> ds_plannedAt.at],
                       0)
               /\ NoToast
       /\ UNCHANGED <<authVars, formVars, searchVars, listVars, animVars,
                      ds_loadingFlights, ds_deletingFlightId, db_rows,
                      db_nextId, db_replies>>
       /\ UNCHANGED notDs

\* the server serves an insert: the row is stored under a new id, or refused
ServeInsert ==
    \E req \in db_inflight : \E ok \in BOOLEAN :
        /\ req.kind = "insert"
        /\ ok => Cardinality(db_rows) < MaxRows
        /\ db_inflight' = db_inflight \ {req}
        /\ db_rows' = IF ok
                      THEN db_rows \cup {[req.row EXCEPT !.id = db_nextId]}
                      ELSE db_rows
        /\ db_nextId' = IF ok THEN db_nextId + 1 ELSE db_nextId
        /\ db_replies' = db_replies \cup
              { [no |-> req.no, kind |-> "insert", origin |-> req.origin,
                 uid |-> req.uid, id |-> req.id, ok |-> ok, data |-> <<>>] }
        /\ UNCHANGED <<db_reqNo, db_log>>
        /\ UNCHANGED dsVars
        /\ UNCHANGED notDs

\* the server serves the dashboard's select: the user's rows as they are now
ServeReload ==
    \E req \in db_inflight : \E ok \in BOOLEAN :
        /\ req.kind = "select" /\ req.origin = "reload"
        /\ db_inflight' = db_inflight \ {req}
        /\ db_replies' = db_replies \cup
              { [no |-> req.no, kind |-> "select", origin |-> req.origin,
                 uid |-> req.uid, id |-> req.id, ok |-> ok,
                 data |-> IF ok THEN SelectByUser(db_rows, req.uid) ELSE <<>>] }
        /\ UNCHANGED <<db_rows, db_nextId, db_reqNo, db_log>>
        /\ UNCHANGED dsVars
        /\ UNCHANGED notDs

\* the rows of data that reloadFlights pushes to upcoming at time now
RECURSIVE UpcomingOf(_, _)
UpcomingOf(data, now) ==
    IF data = <<>> THEN <<>>
    ELSE IF Head(data).hasPlanned /\ Head(data).planned_at >= now
         THEN <<Head(data)>> \o UpcomingOf(Tail(data), now)
         ELSE UpcomingOf(Tail(data), now)

\* the rows of data that reloadFlights pushes to past at time now
RECURSIVE PastOf(_, _)
PastOf(data, now) ==
    IF data = <<>> THEN <<>>
    ELSE IF Head(data).hasPlanned /\ Head(data).planned_at >= now
         THEN PastOf(Tail(data), now)
         ELSE <<Head(data)>> \o PastOf(Tail(data), now)

\* the reverse left out
ReverseKept(s) == s

\* Array.prototype.reverse
Reverse(s) == [i \in 1..Len(s) |-> s[Len(s) + 1 - i]]

\* saveFlight after its await: toast, form reset and reloadFlights on
\* success, the catch block otherwise, then the finally block
SaveSettles ==
    \E rep \in db_replies :
        /\ rep.kind = "insert"
        /\ ds_event' = "saveSettles"
        /\ db_replies' = db_replies \ {rep}
        /\ IF rep.ok
           THEN /\ Toast("Flight added")
                /\ ds_departure' = SetState(ds_departure, <<>>)
                /\ ds_arrival' = SetState(ds_arrival, <<>>)
                /\ ds_intermediates' = SetState(ds_intermediates, <<>>)
                /\ ds_plannedAt' = SetState(ds_plannedAt, NoPlannedAt)
                /\ UNCHANGED ds_picker
                /\ UNCHANGED <<ds_departureValid, ds_arrivalValid>>
                /\ ds_loadingFlights' = SetState(ds_loadingFlights, TRUE)
                /\ Send("select", "reload", rep.uid, NoId, NoRow, 0)
           ELSE /\ Toast("Save failed")
                /\ UNCHANGED <<formVars, ds_loadingFlights, sendVars>>
        /\ ds_savingFlight' = SetState(ds_savingFlight, FALSE)
        /\ UNCHANGED <<authVars, searchVars, listVars, animVars,
                       ds_deletingFlightId, db_rows, db_nextId>>
        /\ UNCHANGED notDs

\* a completed reloadFlights call: the number of its select, its outcome and
\* the lists it built
Reloaded(no, ok, upcoming, past) ==
    [no |-> no, ok |-> ok, upcoming |-> upcoming, past |-> past]

\* reloadFlights after its await
ReloadSettles ==
    \E rep \in db_replies :
        /\ rep.kind = "select" /\ rep.origin = "reload"
        /\ ds_event' = "reloadSettles"
        /\ db_replies' = db_replies \ {rep}
        /\ IF rep.ok
           THEN /\ ds_upcomingFlights' =
                      SetState(ds_upcomingFlights, UpcomingOf(rep.data, ds_now))
                /\ ds_pastFlights' =
                      SetState(ds_pastFlights, Reverse(PastOf(rep.data, ds_now)))
                /\ ds_reloads' = Append(ds_reloads,
                      Reloaded(rep.no, TRUE, UpcomingOf(rep.data, ds_now),
                               Reverse(PastOf(rep.data, ds_now))))
                /\ NoToast
           ELSE /\ Toast("Could not load flights")
                /\ ds_reloads' = Append(ds_reloads,
                      Reloaded(rep.no, FALSE, <<>>, <<>>))
                /\ UNCHANGED <<ds_upcomingFlights, ds_pastFlights>>
        /\ ds_loadingFlights' = SetState(ds_loadingFlights, FALSE)
        /\ UNCHANGED <<authVars, formVars, searchVars, animVars, sendVars,
                       ds_savingFlight, ds_deletingFlightId, db_rows, db_nextId>>
        /\ UNCHANGED notDs

(***************************************************************************)
(* Dashboard: the search panel, the flight cards and the timers            *)
(***************************************************************************)
DashTickMs == 100
AnimationMs == 2200
AnimationResetMs == 100
DeleteDelayMs == 500
MaxDashClockMs == 2600
MaxTimers == 2

\* encodeURIComponent over the characters a route can hold
RECURSIVE EncodeURIComponent(_)
EncodeURIComponent(text) ==
    IF text = <<>> THEN <<>>
    ELSE (IF Head(text) = " " THEN <<"%", "2", "0">>
          ELSE IF Head(text) = "\t" THEN <<"%", "0", "9">>
          ELSE <<Head(text)>>)
         \o EncodeURIComponent(Tail(text))

\* the decoding done by URLSearchParams.get
RECURSIVE DecodeURIComponent(_)
DecodeURIComponent(text) ==
    IF text = <<>> THEN <<>>
    ELSE IF Len(text) >= 3 /\ SubSeq(text, 1, 3) = <<"%", "2", "0">>
         THEN <<" ">> \o DecodeURIComponent(SubSeq(text, 4, Len(text)))
    ELSE IF Len(text) >= 3 /\ SubSeq(text, 1, 3) = <<"%", "0", "9">>
         THEN <<"\t">> \o DecodeURIComponent(SubSeq(text, 4, Len(text)))
    ELSE <<Head(text)>> \o DecodeURIComponent(Tail(text))

\* a pending setTimeout of the dashboard
Timer(no, kind, due, id, uid, parts) ==
    [no |-> no, kind |-> kind, due |-> due, id |-> id, uid |-> uid,
     parts |-> parts]

\* navigate(...): the router leaves the dashboard and shows the detail view
Navigate(path, route, id) ==
    /\ ds_navs' = Append(ds_navs, [at |-> ds_now, path |-> path,
                                   route |-> route, id |-> id])
    /\ ds_mounted' = FALSE
    /\ MountDetail(id, DecodeURIComponent(route))

\* briefFromFlight
briefFromFlight(isRoute, id, departure, intermediates, arrival) ==
    IF isRoute
    THEN Navigate("/brief",
                  EncodeURIComponent(JoinWords(FilterNonEmpty(
                      <<departure>> \o intermediates \o <<arrival>>))),
                  NoId)
    ELSE Navigate("/flight", <<>>, id)

\* the search button is never disabled
SearchButtonNeverDisabled == FALSE

\* disabled={briefingLoading || planeAnimating}; briefingLoading stays false
SearchButtonDisabled == ds_planeAnimating

\* the flight cards are rendered unless the lists are loading
ShownFlights ==
    IF ds_loadingFlights THEN {}
    ELSE { ds_upcomingFlights[i] : i \in DOMAIN ds_upcomingFlights }
         \cup { ds_pastFlights[i] : i \in DOMAIN ds_pastFlights }

notSearch == <<ds_loading, ds_user, ds_authEvents, formVars, listVars, ds_savingFlight,
               ds_loadingFlights, ds_deletingFlightId>>

\* onChange of the search panel's departure AirportAutocomplete
EditSearchDeparture ==
    \E v \in DepartureTexts :
        /\ DashboardShown
        /\ v # ds_searchDeparture
        /\ ds_event' = "edit"
        /\ NoToast
        /\ ds_searchDeparture' = v
        /\ UNCHANGED <<ds_searchArrival, ds_searchIntermediates,
                       ds_searchDepartureValid, ds_searchArrivalValid>>
        /\ UNCHANGED <<ds_mounted, notSearch, animVars, dbVars>>
        /\ UNCHANGED notDs

\* onChange of the search panel's arrival AirportAutocomplete
EditSearchArrival ==
    \E v \in ArrivalTexts :
        /\ DashboardShown
        /\ v # ds_searchArrival
        /\ ds_event' = "edit"
        /\ NoToast
        /\ ds_searchArrival' = v
        /\ UNCHANGED <<ds_searchDeparture, ds_searchIntermediates,
                       ds_searchDepartureValid, ds_searchArrivalValid>>
        /\ UNCHANGED <<ds_mounted, notSearch, animVars, dbVars>>
        /\ UNCHANGED notDs

\* onValidationChange of the search panel's two AirportAutocompletes
ReportSearchValidity ==
    \E dv, av \in BOOLEAN :
        /\ DashboardShown
        /\ <<dv, av>> # <<ds_searchDepartureValid, ds_searchArrivalValid>>
        /\ dv = ds_searchDepartureValid \/ av = ds_searchArrivalValid
        /\ ds_event' = "edit"
        /\ NoToast
        /\ ds_searchDepartureValid' = dv
        /\ ds_searchArrivalValid' = av
        /\ UNCHANGED <<ds_searchDeparture, ds_searchArrival,
                       ds_searchIntermediates>>
        /\ UNCHANGED <<ds_mounted, notSearch, animVars, dbVars>>
        /\ UNCHANGED notDs

\* addSearchIntermediate, updateSearchIntermediate, removeSearchIntermediate
EditSearchIntermediates ==
    /\ DashboardShown
    /\ ds_event' = "edit"
    /\ NoToast
    /\ \/ /\ Len(ds_searchIntermediates) < MaxIntermediates
          /\ ds_searchIntermediates' = Append(ds_searchIntermediates, <<>>)
       \/ \E idx \in DOMAIN ds_searchIntermediates :
            \E v \in SearchIntermediateTexts :
              /\ ToUpperCase(v) # ds_searchIntermediates[idx]
              /\ ds_searchIntermediates' =
                    [ds_searchIntermediates EXCEPT ![idx] = ToUpperCase(v)]
       \/ \E idx \in DOMAIN ds_searchIntermediates :
            ds_searchIntermediates' =
                SubSeq(ds_searchIntermediates, 1, idx - 1)
                \o SubSeq(ds_searchIntermediates, idx + 1,
                          Len(ds_searchIntermediates))
    /\ UNCHANGED <<ds_searchDeparture, ds_searchArrival,
                   ds_searchDepartureValid, ds_searchArrivalValid>>
    /\ UNCHANGED <<ds_mounted, notSearch, animVars, dbVars>>
    /\ UNCHANGED notDs

\* getBriefing: a failing check toasts and returns; otherwise the animation
\* starts and the navigation is scheduled
getBriefing ==
    LET dep == ToUpperCase(Trim(ds_searchDeparture))
        arr == ToUpperCase(Trim(ds_searchArrival))
        mids == CleanIntermediates(ds_searchIntermediates)
    IN /\ DashboardShown
       /\ ~SearchButtonDisabled
       /\ ds_event' = "getBriefing"
       /\ IF dep = <<>> \/ arr = <<>>
          THEN /\ Toast("Missing fields")
               /\ UNCHANGED <<ds_planeAnimating, ds_timers, ds_timerNo,
                              ds_clicks>>
          ELSE IF ~ds_searchDepartureValid \/ ~ds_searchArrivalValid
          THEN /\ Toast("Invalid airports")
               /\ UNCHANGED <<ds_planeAnimating, ds_timers, ds_timerNo,
                              ds_clicks>>
          ELSE /\ ds_timerNo <= MaxTimers
               /\ NoToast
               /\ ds_planeAnimating' = TRUE
               /\ ds_timers' = ds_timers \cup
                     { Timer(ds_timerNo, "nav", ds_now + AnimationMs, NoId,
                             ds_user, <<dep>> \o mids \o <<arr>>) }
               /\ ds_timerNo' = ds_timerNo + 1
               /\ ds_clicks' = Append(ds_clicks,
                     [at |-> ds_now, departure |-> ds_searchDeparture,
                      intermediates |-> ds_searchIntermediates,
                      arrival |-> ds_searchArrival])
       /\ UNCHANGED <<ds_mounted, notSearch, searchVars, ds_navs, ds_now,
                      dbVars>>
       /\ UNCHANGED notDs

\* the callback of getBriefing's timer: briefFromFlight for the typed route,
\* then the timer that resets the animation
NavTimerFires ==
    \E t \in ds_timers :
        /\ t.kind = "nav" /\ t.due = ds_now
        /\ ds_event' = "navTimer"
        /\ NoToast
        /\ briefFromFlight(TRUE, NoId, t.parts[1],
                           SubSeq(t.parts, 2, Len(t.parts) - 1),
                           t.parts[Len(t.parts)])
        /\ ds_timers' = (ds_timers \ {t}) \cup
              { Timer(t.no, "animReset", ds_now + AnimationResetMs, NoId,
                      t.uid, <<>>) }
        /\ UNCHANGED <<notSearch, searchVars, ds_planeAnimating, ds_timerNo,
                       ds_clicks, ds_now>>
        /\ UNCHANGED <<db_rows, db_nextId, db_replies>>
        /\ UNCHANGED notPages

\* the inner timer: setPlaneAnimating(false)
AnimationResetFires ==
    \E t \in ds_timers :
        /\ t.kind = "animReset" /\ t.due = ds_now
        /\ ds_event' = "animReset"
        /\ NoToast
        /\ ds_planeAnimating' = SetState(ds_planeAnimating, FALSE)
        /\ ds_timers' = ds_timers \ {t}
        /\ UNCHANGED <<ds_mounted, notSearch, searchVars, ds_timerNo, ds_navs,
                       ds_clicks, ds_now, dbVars>>
        /\ UNCHANGED notDs

\* a click on a flight card: briefFromFlight(f)
CardClicked ==
    \E f \in ShownFlights :
        /\ DashboardShown
        /\ ds_event' = "briefFromFlight"
        /\ NoToast
        /\ briefFromFlight(FALSE, f.id, f.departure, f.intermediates.list,
                           f.arrival)
        /\ UNCHANGED <<notSearch, searchVars, ds_planeAnimating, ds_timers,
                       ds_timerNo, ds_clicks, ds_now>>
        /\ UNCHANGED <<db_rows, db_nextId, db_replies>>
        /\ UNCHANGED notPages

\* time passes while a timer is pending, but not past a timer that is due
TickDashboard ==
    /\ ds_timers # {}
    /\ ds_now + DashTickMs <= MaxDashClockMs
    /\ \A t \in ds_timers : t.due >= ds_now + DashTickMs
    /\ ds_now' = ds_now + DashTickMs
    /\ ds_event' = "tick"
    /\ NoToast
    /\ UNCHANGED <<ds_mounted, notSearch, searchVars,
                   ds_planeAnimating, ds_timers, ds_timerNo, ds_navs,
                   ds_clicks, dbVars>>
    /\ UNCHANGED notDs

\* deleteFlight: setDeletingFlightId and the timer of the animation
deleteFlight ==
    \E f \in ShownFlights :
        /\ DashboardShown
        /\ ds_timerNo <= MaxTimers
        /\ ds_event' = "deleteFlight"
        /\ NoToast
        /\ ds_deletingFlightId' = f.id
        /\ ds_timers' = ds_timers \cup
              { Timer(ds_timerNo, "delete", ds_now + DeleteDelayMs, f.id,
                      ds_user, <<>>) }
        /\ ds_timerNo' = ds_timerNo + 1
        /\ UNCHANGED <<authVars, formVars, searchVars, listVars,
                       ds_savingFlight, ds_loadingFlights, ds_planeAnimating,
                       ds_navs, ds_clicks, ds_now, dbVars>>
        /\ UNCHANGED notDs

\* the callback of deleteFlight's timer up to its await: the delete is sent
DeleteTimerFires ==
    \E t \in ds_timers :
        /\ t.kind = "delete" /\ t.due = ds_now
        /\ ds_event' = "deleteTimer"
        /\ NoToast
        /\ Send("delete", "delete", t.uid, t.id, NoRow, 0)
        /\ ds_timers' = ds_timers \ {t}
        /\ UNCHANGED <<authVars, formVars, searchVars, listVars,
                       ds_savingFlight, ds_loadingFlights, ds_deletingFlightId,
                       ds_planeAnimating, ds_timerNo, ds_navs, ds_clicks,
                       ds_now, db_rows, db_nextId, db_replies>>
        /\ UNCHANGED notDs

\* the rows left when the row is kept and its planned time cleared instead
RowsAfterSoftDelete(rows, id) ==
    { IF r.id = id THEN [r EXCEPT !.hasPlanned = FALSE, !.planned_at = 0]
      ELSE r : r \in rows }

\* .delete().eq("id", id): the rows left in the table
RowsAfterDelete(rows, id) == { r \in rows : r.id # id }

\* the server serves a delete, or refuses it
ServeDelete ==
    \E req \in db_inflight : \E ok \in BOOLEAN :
        /\ req.kind = "delete"
        /\ db_inflight' = db_inflight \ {req}
        /\ db_rows' = IF ok THEN RowsAfterDelete(db_rows, req.id) ELSE db_rows
        /\ db_replies' = db_replies \cup
              { [no |-> req.no, kind |-> "delete", origin |-> req.origin,
                 uid |-> req.uid, id |-> req.id, ok |-> ok, data |-> <<>>] }
        /\ UNCHANGED <<db_nextId, db_reqNo, db_log>>
        /\ UNCHANGED dsVars
        /\ UNCHANGED notDs

\* the callback of deleteFlight's timer after its await
DeleteSettles ==
    \E rep \in db_replies :
        /\ rep.kind = "delete"
        /\ ds_event' = "deleteSettles"
        /\ db_replies' = db_replies \ {rep}
        /\ IF rep.ok
           THEN /\ Toast("Flight deleted")
                /\ IF rep.uid # Null
                   THEN /\ ds_loadingFlights' =
                              SetState(ds_loadingFlights, TRUE)
                        /\ Send("select", "reload", rep.uid, NoId, NoRow, 0)
                   ELSE UNCHANGED <<ds_loadingFlights, sendVars>>
           ELSE /\ Toast("Delete failed")
                /\ UNCHANGED <<ds_loadingFlights, sendVars>>
        /\ ds_deletingFlightId' = SetState(ds_deletingFlightId, NoId)
        /\ UNCHANGED <<authVars, formVars, searchVars, listVars, animVars,
                       ds_savingFlight, db_rows, db_nextId>>
        /\ UNCHANGED notDs

IdleDashboard == DashboardState(FALSE, <<>>, <<>>, FALSE, NoPlannedAt)

(***************************************************************************)
(* Map page: the Leaflet scripts load asynchronously, the route's airports *)
(* and METARs are fetched, and the map effect draws from the state the     *)
(* render that triggered it holds.  The page stays open in this model.     *)
(***************************************************************************)
\* a coordinate the backend left out (null)
NoCoord == 999

AirportInfo(icao, lat, lon) ==
    [icao |-> icao, latitude_deg |-> lat, longitude_deg |-> lon]

StationMetar(station, text) ==
    [defined |-> TRUE, hasText |-> TRUE, station |-> station, raw_text |-> text]

\* routes the page is opened with: none, and the two-airport route
MapRoutes == { <<>>, <<"V","A","B","B"," ","V","A","A","H">> }

\* bodies of /airport-info: complete, one airport without coordinates, and
\* no airport at all
AirportLists ==
    { << AirportInfo("VABB", 19, 72), AirportInfo("VAAH", 23, 72) >>,
      << AirportInfo("VABB", 19, 72), AirportInfo("VAAH", NoCoord, NoCoord) >>,
      <<>> }

\* the metars of /analyze-route bodies: none, a thunderstorm at VABB, fair
MapMetarLists ==
    { <<>>,
      << StationMetar("VABB", <<"T","S","R","A">>) >>,
      << StationMetar("VABB", <<"C","A","V","O","K">>),
         StationMetar("VAAH", <<"C","A","V","O","K">>) >> }

\* JavaScript truthiness of a coordinate: null and 0 are falsy
CoordTruthy(x) == x # NoCoord /\ x # 0

\* list.filter((a) => a.latitude_deg && a.longitude_deg)
RECURSIVE FilterWithCoords(_)
FilterWithCoords(list) ==
    IF list = <<>> THEN <<>>
    ELSE IF CoordTruthy(Head(list).latitude_deg)
            /\ CoordTruthy(Head(list).longitude_deg)
         THEN <<Head(list)>> \o FilterWithCoords(Tail(list))
         ELSE FilterWithCoords(Tail(list))

\* map[m.station] = m over data.metars, then metars[a.icao]: the last
\* METAR of the station, undefined when there is none
RECURSIVE MetarOfStation(_, _)
MetarOfStation(metars, icao) ==
    IF metars = <<>> THEN NoMetar
    ELSE IF metars[Len(metars)].station = icao THEN metars[Len(metars)]
    ELSE MetarOfStation(SubSeq(metars, 1, Len(metars) - 1), icao)

NoMap == [drawn |-> FALSE, markers |-> <<>>, polygons |-> <<>>,
          clustered |-> FALSE, line |-> FALSE]

RECURSIVE StormIcaos(_, _)
StormIcaos(airports, metars) ==
    IF airports = <<>> THEN <<>>
    ELSE LET a == Head(airports)
             metar == MetarOfStation(metars, a.icao)
         IN (IF metar.defined /\ hasThunderstormMapPage(metar)
             THEN <<a.icao>> ELSE <<>>)
            \o StormIcaos(Tail(airports), metars)

\* one run of the map effect (after the cleanup of the run before it):
\* nothing without window.L, else one marker per airport of the state
MapEffect(L, cluster, airports, metars) ==
    IF ~L THEN NoMap
    ELSE [drawn |-> TRUE,
          markers |-> [i \in 1..Len(airports) |-> airports[i].icao],
          polygons |-> StormIcaos(airports, metars),
          clustered |-> cluster = "attached",
          line |-> Len(airports) >= 2]

MapState(mounted) ==
    /\ mp_mounted = mounted
    /\ mp_route = <<>>
    /\ mp_L = FALSE
    /\ mp_cluster = "absent"
    /\ mp_fetch = "none"
    /\ mp_list = <<>>
    /\ mp_airports = <<>>
    /\ mp_metars = <<>>
    /\ mp_map = NoMap
    /\ mp_event = "none"

InitMap == MapState(FALSE)

IdleMap == MapState(FALSE)

\* the page mounts: the scripts are appended (or window.L is still there
\* from an earlier visit), the fetch effect asks for the route's airports
\* and the map effect runs once with the empty lists
OpenMap ==
    /\ ~mp_mounted
    /\ \E route \in MapRoutes, visited \in BOOLEAN :
        /\ mp_mounted' = TRUE
        /\ mp_route' = Trim(route)
        /\ mp_L' = visited
        /\ mp_cluster' = IF visited THEN "attached" ELSE "loading"
        /\ mp_fetch' = IF Trim(route) = <<>> THEN "none" ELSE "airportInfo"
        /\ mp_map' = MapEffect(visited, mp_cluster', <<>>, <<>>)
    /\ mp_event' = "mount"
    /\ UNCHANGED <<mp_list, mp_airports, mp_metars>>
    /\ UNCHANGED notMp

\* leaflet.js finishes loading: window.L is set, no state changes and no
\* effect runs
LeafletLoads ==
    /\ mp_mounted
    /\ ~mp_L
    /\ mp_L' = TRUE
    /\ mp_event' = "leaflet"
    /\ UNCHANGED <<mp_mounted, mp_route, mp_cluster, mp_fetch, mp_list,
                   mp_airports, mp_metars, mp_map>>
    /\ UNCHANGED notMp

\* leaflet.markercluster.js finishes loading: it attaches to window.L when
\* that exists and fails otherwise (both scripts are async)
ClusterLoads ==
    /\ mp_mounted
    /\ mp_cluster = "loading"
    /\ mp_cluster' = IF mp_L THEN "attached" ELSE "failed"
    /\ mp_event' = "cluster"
    /\ UNCHANGED <<mp_mounted, mp_route, mp_L, mp_fetch, mp_list,
                   mp_airports, mp_metars, mp_map>>
    /\ UNCHANGED notMp

\* /airport-info answers: setAirports(filtered), the analyze-route request
\* goes out, and the re-render runs the map effect
AirportInfoResponds ==
    /\ mp_mounted
    /\ mp_fetch = "airportInfo"
    /\ \E list \in AirportLists :
        /\ mp_list' = list
        /\ mp_airports' = FilterWithCoords(list)
        /\ mp_map' = MapEffect(mp_L, mp_cluster, mp_airports', mp_metars)
    /\ mp_fetch' = "analyze"
    /\ mp_event' = "airports"
    /\ UNCHANGED <<mp_mounted, mp_route, mp_L, mp_cluster, mp_metars>>
    /\ UNCHANGED notMp

\* /airport-info fails: the async function rejects, nothing is set
AirportInfoFails ==
    /\ mp_mounted
    /\ mp_fetch = "airportInfo"
    /\ mp_fetch' = "failed"
    /\ mp_event' = "airportsFailed"
    /\ UNCHANGED <<mp_mounted, mp_route, mp_L, mp_cluster, mp_list,
                   mp_airports, mp_metars, mp_map>>
    /\ UNCHANGED notMp

\* /analyze-route answers: setMetars(map) and the map effect runs again
AnalyzeResponds ==
    /\ mp_mounted
    /\ mp_fetch = "analyze"
    /\ \E metars \in MapMetarLists :
        /\ mp_metars' = metars
        /\ mp_map' = MapEffect(mp_L, mp_cluster, mp_airports, metars)
    /\ mp_fetch' = "done"
    /\ mp_event' = "metars"
    /\ UNCHANGED <<mp_mounted, mp_route, mp_L, mp_cluster, mp_list,
                   mp_airports>>
    /\ UNCHANGED notMp

\* /analyze-route fails: caught and ignored
AnalyzeFails ==
    /\ mp_mounted
    /\ mp_fetch = "analyze"
    /\ mp_fetch' = "done"
    /\ mp_event' = "metarsFailed"
    /\ UNCHANGED <<mp_mounted, mp_route, mp_L, mp_cluster, mp_list,
                   mp_airports, mp_metars, mp_map>>
    /\ UNCHANGED notMp

(***************************************************************************)
(* generateThunderstormPolygon.  A number is a decimal floating-point      *)
(* value s * m * 10^e with four significant digits, or an infinity, or     *)
(* NaN; Math.cos and Math.sin are tabulated from their IEEE double results *)
(* (cos of the double nearest to pi/2 is 6.123e-17, not 0).                *)
(***************************************************************************)
Fin(s, m, e) == [k |-> "fin", s |-> s, m |-> m, e |-> e]
Inf(s) == [k |-> "inf", s |-> s, m |-> 0, e |-> 0]
NaN == [k |-> "nan", s |-> 1, m |-> 0, e |-> 0]
Zero == Fin(1, 0, 0)

\* round to four digits, overflow to an infinity, underflow to 0
RECURSIVE Norm(_, _, _)
Norm(s, m, e) ==
    IF m = 0 THEN Zero
    ELSE IF m >= 10000 THEN Norm(s, m \div 10, e + 1)
    ELSE IF m < 1000 THEN Norm(s, m * 10, e - 1)
    ELSE IF e > 305 THEN Inf(s)
    ELSE IF e < -327 THEN Zero
    ELSE Fin(s, m, e)

FromInt(n) == IF n < 0 THEN Norm(-1, -n, 0) ELSE Norm(1, n, 0)

IsZero(a) == a.k = "fin" /\ a.m = 0

\* a * b
FMul(a, b) ==
    IF a.k = "nan" \/ b.k = "nan" THEN NaN
    ELSE IF a.k = "inf" \/ b.k = "inf"
         THEN IF IsZero(a) \/ IsZero(b) THEN NaN ELSE Inf(a.s * b.s)
    ELSE Norm(a.s * b.s, a.m * b.m, a.e + b.e)

\* a / b
FDiv(a, b) ==
    IF a.k = "nan" \/ b.k = "nan" THEN NaN
    ELSE IF a.k = "inf" THEN IF b.k = "inf" THEN NaN ELSE Inf(a.s * b.s)
    ELSE IF b.k = "inf" THEN Zero
    ELSE IF IsZero(b) THEN IF IsZero(a) THEN NaN ELSE Inf(a.s * b.s)
    ELSE Norm(a.s * b.s, (a.m * 100000) \div b.m, a.e - b.e - 5)

RECURSIVE Pow10(_)
Pow10(n) == IF n = 0 THEN 1 ELSE 10 * Pow10(n - 1)

\* a + b: the smaller operand is absorbed when it is beyond the precision
FAdd(a, b) ==
    IF a.k = "nan" \/ b.k = "nan" THEN NaN
    ELSE IF a.k = "inf"
         THEN IF b.k = "inf" /\ b.s # a.s THEN NaN ELSE a
    ELSE IF b.k = "inf" THEN b
    ELSE IF IsZero(a) THEN b
    ELSE IF IsZero(b) THEN a
    ELSE LET hi == IF a.e >= b.e THEN a ELSE b
             lo == IF a.e >= b.e THEN b ELSE a
             d == hi.e - lo.e
             v == hi.s * hi.m * Pow10(Min(d, 5)) + lo.s * lo.m
         IN IF d > 4 THEN hi
            ELSE IF v < 0 THEN Norm(-1, -v, lo.e) ELSE Norm(1, v, lo.e)

\* Math.cos((deg * Math.PI) / 180) in doubles
MathCosReal(deg) ==
    CASE deg \in {0} -> Fin(1, 1000, -3)
      [] deg \in {30, 330} -> Fin(1, 8660, -4)
      [] deg \in {45, -45} -> Fin(1, 7071, -4)
      [] deg \in {60, -60, 300} -> Fin(1, 5000, -4)
      [] deg \in {90, -90, 270} -> Zero
      [] deg \in {120, 240} -> Fin(-1, 5000, -4)
      [] deg \in {150, 210} -> Fin(-1, 8660, -4)
      [] deg \in {180} -> Fin(-1, 1000, -3)

MathCos(deg) ==
    CASE deg \in {0} -> Fin(1, 1000, -3)
      [] deg \in {30, 330} -> Fin(1, 8660, -4)
      [] deg \in {45, -45} -> Fin(1, 7071, -4)
      [] deg \in {60, -60, 300} -> Fin(1, 5000, -4)
      [] deg \in {90, -90} -> Fin(1, 6123, -20)
      [] deg \in {120} -> Fin(-1, 4999, -4)
      [] deg \in {240} -> Fin(-1, 5000, -4)
      [] deg \in {150, 210} -> Fin(-1, 8660, -4)
      [] deg \in {180} -> Fin(-1, 1000, -3)
      [] deg \in {270} -> Fin(-1, 1836, -19)

\* Math.sin((deg * Math.PI) / 180) in doubles
MathSin(deg) ==
    CASE deg \in {0} -> Zero
      [] deg \in {30, 150} -> Fin(1, 4999, -4)
      [] deg \in {60, 120} -> Fin(1, 8660, -4)
      [] deg \in {90} -> Fin(1, 1000, -3)
      [] deg \in {180} -> Fin(1, 1224, -19)
      [] deg \in {210, 330} -> Fin(-1, 5000, -4)
      [] deg \in {240, 300} -> Fin(-1, 8660, -4)
      [] deg \in {270} -> Fin(-1, 1000, -3)

numPoints == 12
KmPerDegree == 111

\* the loop body for index i (0-based in the code, angle = i * 360 / 12)
PolygonPoint(lat, lon, radiusKm, i) ==
    LET angle == (i * 360) \div numPoints
        latOffset == FMul(FDiv(FromInt(radiusKm), FromInt(KmPerDegree)),
                          MathCos(angle))
        lonOffset == FMul(FDiv(FromInt(radiusKm),
                               FMul(FromInt(KmPerDegree), MathCos(lat))),
                          MathSin(angle))
    IN << FAdd(FromInt(lat), latOffset), FAdd(FromInt(lon), lonOffset) >>

generateThunderstormPolygon(lat, lon, radiusKm) ==
    [p \in 1..numPoints |-> PolygonPoint(lat, lon, radiusKm, p - 1)]

\* airport coordinates in whole degrees (the poles and the date line
\* included) and the radii: the 25 km of both callers, 100 km and 500 km
\* (offsets of a radius of a few km are below the four digits kept here)
PolygonLatitudes == {-90, -60, -45, 0, 45, 60, 90}
PolygonLongitudes == {-180, -120, 0, 72, 180}
PolygonRadii == {25, 100, 500}

InitPolygon ==
    /\ pg_pc = "input"
    /\ pg_lat \in PolygonLatitudes
    /\ pg_lon \in PolygonLongitudes
    /\ pg_radius \in PolygonRadii
    /\ pg_points = <<>>

GeneratePolygon ==
    /\ pg_pc = "input"
    /\ pg_pc' = "done"
    /\ pg_points' = generateThunderstormPolygon(pg_lat, pg_lon, pg_radius)
    /\ UNCHANGED <<pg_lat, pg_lon, pg_radius>>
    /\ UNCHANGED notPg

IdlePolygon ==
    /\ pg_pc = "idle"
    /\ pg_lat = 0
    /\ pg_lon = 0
    /\ pg_radius = 0
    /\ pg_points = <<>>

(***************************************************************************)
(* The two fatigue checks over one flights table at one time (now = 0):    *)
(* the flight detail view's detectFatigueWarning on its own query, and the *)
(* dashboard's badge on the Upcoming list that reloadFlights built.        *)
(***************************************************************************)
FatigueUsers == {"u1", "u2"}

\* tables of up to MaxFlights rows with ids 1..n
FatigueTables ==
    UNION { { { [id |-> i, user_id |-> u[i],
                 hasPlanned |-> c[i].hasPlanned,
                 planned_at |-> c[i].planned_at] : i \in 1..n } :
              c \in [1..n -> PlannedChoices], u \in [1..n -> FatigueUsers] } :
            n \in 0..MaxFlights }

InitFatigueViews ==
    /\ fq_pc = "input"
    /\ fq_rows \in FatigueTables
    /\ fq_flightId \in 0..MaxFlights
    /\ fq_ok \in BOOLEAN
    /\ fq_detail = FALSE
    /\ fq_badge = FALSE

\* user u1 opens the flight (NoId: an ad-hoc route briefing) and looks at
\* the dashboard card of the same flight
EvaluateFatigue ==
    /\ fq_pc = "input"
    /\ fq_pc' = "done"
    /\ fq_detail' =
          IF fq_flightId = NoId THEN FALSE
          ELSE detectFatigueWarning(
                   fq_ok,
                   IF fq_ok THEN SelectUpcomingOfUser(fq_rows, "u1", 0)
                   ELSE <<>>,
                   fq_flightId)
    /\ fq_badge' =
          (fq_flightId \in
              detectFatigueWarnings(
                  UpcomingOf(SelectByUser(fq_rows, "u1"), 0)).warnings)
    /\ UNCHANGED <<fq_rows, fq_flightId, fq_ok>>
    /\ UNCHANGED notFq

IdleFatigueViews ==
    /\ fq_pc = "idle"
    /\ fq_rows = {}
    /\ fq_flightId = NoId
    /\ fq_ok = FALSE
    /\ fq_detail = FALSE
    /\ fq_badge = FALSE

(***************************************************************************)
(* reloadFlights over any flights table: the select of the user's rows     *)
(* and the split of the fetched rows into Upcoming and Past at time now.   *)
(***************************************************************************)
ReloadInstants == {0, MsPerHour}

InitReload ==
    /\ rl_pc = "input"
    /\ rl_rows \in FatigueTables
    /\ rl_now \in ReloadInstants
    /\ rl_data = <<>>
    /\ rl_upcoming = <<>>
    /\ rl_past = <<>>

\* reloadFlights("u1") with a successful select, settled at rl_now
ReloadLists ==
    /\ rl_pc = "input"
    /\ rl_pc' = "done"
    /\ rl_data' = SelectByUser(rl_rows, "u1")
    /\ rl_upcoming' = UpcomingOf(rl_data', rl_now)
    /\ rl_past' = Reverse(PastOf(rl_data', rl_now))
    /\ UNCHANGED <<rl_rows, rl_now>>
    /\ UNCHANGED notRl

IdleReload ==
    /\ rl_pc = "idle"
    /\ rl_rows = {}
    /\ rl_now = 0
    /\ rl_data = <<>>
    /\ rl_upcoming = <<>>
    /\ rl_past = <<>>

(***************************************************************************)
(* FlightDetail: RouteMap, the Leaflet map under the briefing summary.     *)
(* A map instance is a number; rm_maps holds the instances that were       *)
(* created and not removed, rm_routeMap is window.__routeMap.  The div     *)
(* "route-map" is rendered by RouteMap itself, so the effect always finds  *)
(* it.  A call into Leaflet may throw: L.map itself, or any call after it. *)
(***************************************************************************)
NoInstance == 0
maxRetries == 50
MaxMaps == 3

InitOutcomes == {"initialized", "L.map throws", "a later call throws"}

\* initMap with the retry count, the live instances and window.__routeMap
\* it starts from
initMap(retryCount, maps, routeMap, outcome) ==
    IF ~rm_L
    THEN /\ rm_retryCount' = retryCount + 1
         /\ IF retryCount + 1 >= maxRetries
            THEN /\ rm_timer' = FALSE
                 /\ rm_error' = "Failed to load map library"
            ELSE /\ rm_timer' = TRUE
                 /\ UNCHANGED rm_error
         /\ rm_maps' = maps
         /\ rm_routeMap' = routeMap
         /\ UNCHANGED rm_nextMap
    ELSE /\ rm_retryCount' = retryCount
         /\ rm_timer' = FALSE
         /\ IF outcome = "initialized"
            THEN /\ rm_maps' = maps \cup {rm_nextMap}
                 /\ rm_routeMap' = rm_nextMap
                 /\ rm_nextMap' = rm_nextMap + 1
                 /\ UNCHANGED rm_error
            ELSE IF outcome = "L.map throws"
            THEN /\ rm_maps' = maps
                 /\ rm_routeMap' = routeMap
                 /\ UNCHANGED rm_nextMap
                 /\ rm_error' = "Failed to initialize map"
            ELSE /\ rm_maps' = maps \cup {rm_nextMap}
                 /\ rm_routeMap' = routeMap
                 /\ rm_nextMap' = rm_nextMap + 1
                 /\ rm_error' = "Failed to initialize map"

\* the instances left by the effect's cleanup: window.__routeMap, if set, is
\* removed
MapsAfterCleanup(maps, routeMap) ==
    IF routeMap # NoInstance THEN maps \ {routeMap} ELSE maps

RouteMapState(mounted) ==
    /\ rm_event = "idle"
    /\ rm_mounted = mounted
    /\ rm_L = FALSE
    /\ rm_timer = FALSE
    /\ rm_retryCount = 0
    /\ rm_maps = {}
    /\ rm_nextMap = 1
    /\ rm_routeMap = NoInstance
    /\ rm_error = ""

InitRouteMap == RouteMapState(FALSE)

IdleRouteMap == RouteMapState(FALSE)

\* RouteMap mounts: the effect runs initMap
MountRouteMap ==
    \E outcome \in InitOutcomes :
        /\ ~rm_mounted
        /\ rm_nextMap <= MaxMaps
        /\ rm_event' = "mount"
        /\ rm_mounted' = TRUE
        /\ initMap(0, rm_maps, rm_routeMap, outcome)
        /\ UNCHANGED rm_L
        /\ UNCHANGED notRm

\* routeCodes, airportInfoMap or metars change: the cleanup of the previous
\* effect, then the effect again
RouteDepsChange ==
    \E outcome \in InitOutcomes :
        /\ rm_mounted
        /\ rm_nextMap <= MaxMaps
        /\ rm_event' = "deps"
        /\ initMap(0, MapsAfterCleanup(rm_maps, rm_routeMap), NoInstance,
                   outcome)
        /\ UNCHANGED <<rm_mounted, rm_L>>
        /\ UNCHANGED notRm

\* RouteMap unmounts: the cleanup
UnmountRouteMap ==
    /\ rm_mounted
    /\ rm_event' = "unmount"
    /\ rm_mounted' = FALSE
    /\ rm_timer' = FALSE
    /\ rm_maps' = MapsAfterCleanup(rm_maps, rm_routeMap)
    /\ rm_routeMap' = NoInstance
    /\ UNCHANGED <<rm_L, rm_retryCount, rm_nextMap, rm_error>>
    /\ UNCHANGED notRm

\* the retry timer of initMap fires
RetryFires ==
    \E outcome \in InitOutcomes :
        /\ rm_mounted
        /\ rm_timer
        /\ rm_nextMap <= MaxMaps
        /\ rm_event' = "retry"
        /\ initMap(rm_retryCount, rm_maps, rm_routeMap, outcome)
        /\ UNCHANGED <<rm_mounted, rm_L>>
        /\ UNCHANGED notRm

\* the script of useScript(leafletJS) has loaded: window.L is set
RouteLeafletLoads ==
    /\ rm_mounted
    /\ ~rm_L
    /\ rm_event' = "leaflet"
    /\ rm_L' = TRUE
    /\ UNCHANGED <<rm_mounted, rm_timer, rm_retryCount, rm_maps, rm_nextMap,
                   rm_routeMap, rm_error>>
    /\ UNCHANGED notRm

(***************************************************************************)
(* Specifications                                                          *)
(***************************************************************************)
Idle(g) ==
    /\ IF g = "ts" THEN TRUE ELSE IdleThunder
    /\ IF g = "pr" THEN TRUE ELSE IdleParse
    /\ IF g = "fw" THEN TRUE ELSE IdleFatigue
    /\ IF g = "tk" THEN TRUE ELSE IdleToaster
    /\ IF g = "ap" THEN TRUE ELSE IdleApp
    /\ IF g = "ac" THEN TRUE ELSE IdleAutocomplete
    /\ IF g = "ds" THEN TRUE ELSE IdleDashboard
    /\ IF g = "fd" THEN TRUE ELSE IdleDetail
    /\ IF g = "mp" THEN TRUE ELSE IdleMap
    /\ IF g = "pg" THEN TRUE ELSE IdlePolygon
    /\ IF g = "fq" THEN TRUE ELSE IdleFatigueViews
    /\ IF g = "rl" THEN TRUE ELSE IdleReload
    /\ IF g = "rm" THEN TRUE ELSE IdleRouteMap
    /\ InitDb

StartThunder == InitThunder /\ Idle("ts")
NextThunder == CheckThunderstorm
SpecThunder == StartThunder /\ [][NextThunder]_vars

StartFatigue == InitFatigue /\ Idle("fw")
NextFatigue == DetectFatigue
SpecFatigue == StartFatigue /\ [][NextFatigue]_vars

StartToaster == InitToaster /\ Idle("tk")
NextToaster ==
    \/ ShowToast
    \/ handleDismiss
    \/ DisplayTimerFires
    \/ SlideTimerFires
    \/ TickToaster
SpecToaster == StartToaster /\ [][NextToaster]_vars

StartApp == InitApp /\ Idle("ap")
NextApp ==
    \/ ServeGetSession
    \/ GetSessionResolves
    \/ AuthStateChange
    \/ ClassGetBriefing
    \/ ClassBriefingSettles
SpecApp == StartApp /\ [][NextApp]_vars

StartAutocomplete == InitAutocomplete /\ Idle("ac")
NextAutocomplete ==
    \/ handleInputChange
    \/ handleAirportSelect
    \/ handleClear
    \/ ParentResetsValue
    \/ FocusInput
    \/ ClickOutside
    \/ DebounceFires
    \/ SearchResponds
    \/ SearchFails
SpecAutocomplete == StartAutocomplete /\ [][NextAutocomplete]_vars

StartDetail == InitDetail /\ Idle("fd")
NextDetail ==
    \/ OpenDetail
    \/ ServeLoad
    \/ LoadSettles
    \/ RefreshClicked
    \/ SetActiveTab
    \/ BriefingArrives
    \/ ServeFatigue
    \/ FatigueSettles
SpecDetail == StartDetail /\ [][NextDetail]_vars
\* the server answers every select and every continuation runs
SpecDetailLive ==
    /\ StartDetail /\ [][NextDetail]_vars
    /\ WF_vars(ServeLoad) /\ WF_vars(LoadSettles)
    /\ WF_vars(BriefingArrives)
    /\ WF_vars(ServeFatigue) /\ WF_vars(FatigueSettles)

StartSearch == InitDashboard /\ Idle("ds")
NextSearch ==
    \/ SessionArrives
    \/ EditSearchDeparture
    \/ EditSearchArrival
    \/ ReportSearchValidity
    \/ EditSearchIntermediates
    \/ getBriefing
    \/ NavTimerFires
    \/ AnimationResetFires
    \/ TickDashboard
SpecSearch == StartSearch /\ [][NextSearch]_vars

StartFlights == FilledDashboard /\ Idle("ds")
NextFlights ==
    \/ SessionArrives
    \/ saveFlight
    \/ ServeInsert
    \/ SaveSettles
    \/ ServeReload
    \/ ReloadSettles
    \/ deleteFlight
    \/ DeleteTimerFires
    \/ ServeDelete
    \/ DeleteSettles
    \/ TickDashboard
    \/ CardClicked
    \/ ServeLoad
    \/ LoadSettles
    \/ BriefingArrives
    \/ ServeFatigue
    \/ FatigueSettles
SpecFlights == StartFlights /\ [][NextFlights]_vars

StartSave == InitDashboard /\ Idle("ds")
NextSave ==
    \/ SessionArrives
    \/ EditDeparture
    \/ EditArrival
    \/ ReportValidity
    \/ EditIntermediates
    \/ PickDate
    \/ PickTime
    \/ saveFlight
    \/ ServeInsert
    \/ SaveSettles
    \/ ServeReload
    \/ ReloadSettles
SpecSave == StartSave /\ [][NextSave]_vars

StartParse == InitParse /\ Idle("pr")
NextParse == ParseReport
SpecParse == StartParse /\ [][NextParse]_vars

StartMap == InitMap /\ Idle("mp")
NextMap ==
    \/ OpenMap
    \/ LeafletLoads
    \/ ClusterLoads
    \/ AirportInfoResponds
    \/ AirportInfoFails
    \/ AnalyzeResponds
    \/ AnalyzeFails
\* every script load and every response that is due eventually happens
SpecMap == StartMap /\ [][NextMap]_vars /\ WF_vars(NextMap)

StartPolygon == InitPolygon /\ Idle("pg")
NextPolygon == GeneratePolygon
SpecPolygon == StartPolygon /\ [][NextPolygon]_vars

StartBriefings == InitDetail /\ Idle("fd")
NextBriefings ==
    \/ OpenDetail
    \/ UrlChanges
    \/ ServeLoad
    \/ LoadSettles
    \/ RefreshClicked
    \/ BriefingArrives
    \/ ServeFatigue
    \/ FatigueSettles
SpecBriefings == StartBriefings /\ [][NextBriefings]_vars

StartFatigueViews == InitFatigueViews /\ Idle("fq")
NextFatigueViews == EvaluateFatigue
SpecFatigueViews == StartFatigueViews /\ [][NextFatigueViews]_vars

StartReload == InitReload /\ Idle("rl")
NextReload == ReloadLists
SpecReload == StartReload /\ [][NextReload]_vars

StartRouteMap == InitRouteMap /\ Idle("rm")
NextRouteMap ==
    \/ MountRouteMap
    \/ RouteDepsChange
    \/ UnmountRouteMap
    \/ RetryFires
    \/ RouteLeafletLoads
SpecRouteMap == StartRouteMap /\ [][NextRouteMap]_vars

(***************************************************************************)
(* Properties                                                              *)
(***************************************************************************)

\* ---- hasThunderstorm ----
IndicatorSet == { thunderstormIndicators[i] : i \in DOMAIN thunderstormIndicators }

ContainsAt(s, sub, i) ==
    /\ i + Len(sub) - 1 <= Len(s)
    /\ \A k \in 1..Len(sub) : s[i + k - 1] = sub[k]

\* what the twelve-indicator rule demands for a METAR
ThunderstormExpected(metar) ==
    /\ metar.defined
    /\ metar.hasText
    /\ metar.raw_text # <<>>
    /\ \E ind \in IndicatorSet : \E i \in 1..Len(metar.raw_text) :
           ContainsAt(ToUpperCase(metar.raw_text), ind, i)

\* C9: hasThunderstorm(metar) is false for a missing or empty METAR text and
\* otherwise true exactly when the upper-cased text contains one of the twelve
\* indicators, in the flight detail view and on the map page alike.
C9_ThunderstormIndicators ==
    ts_pc = "done" =>
        /\ ts_detail = ThunderstormExpected(ts_metar)
        /\ ts_map = ThunderstormExpected(ts_metar)

\* ---- parseAIReport ----
TrimmedLines(report) ==
    LET raw == SplitLines(report) IN [i \in DOMAIN raw |-> Trim(raw[i])]

\* '<digits>. <title>': d digits, a dot, w blanks, then a title
NumberedHeader(l, d, w) ==
    /\ d >= 1 /\ w >= 1 /\ d + 1 + w < Len(l)
    /\ \A i \in 1..d : l[i] \in Digits
    /\ l[d + 1] = "."
    /\ \A i \in (d + 2)..(d + 1 + w) : l[i] \in WhiteSpace
    /\ l[d + 2 + w] \notin WhiteSpace

IsNumberedHeader(l) ==
    \E d \in 1..Len(l) : \E w \in 1..Len(l) : NumberedHeader(l, d, w)

HeaderTitle(l) ==
    LET dw == CHOOSE p \in (1..Len(l)) \X (1..Len(l)) : NumberedHeader(l, p[1], p[2])
    IN SubSeq(l, dw[1] + dw[2] + 2, Len(l))

IsContentLine(l) ==
    /\ l # <<>>
    /\ ~IsNumberedHeader(l)
    /\ ~(Len(l) >= 3 /\ SubSeq(l, 1, 3) = TripleEquals)
    /\ ~(Len(l) >= 10 /\ SubSeq(l, 1, 10) = ImportantPrefix)

\* the content lines strictly between positions a and b, joined by newlines
RECURSIVE JoinedContent(_, _, _)
JoinedContent(L, a, b) ==
    IF a + 1 >= b THEN <<>>
    ELSE LET rest == JoinedContent(L, a + 1, b)
         IN IF ~IsContentLine(L[a + 1]) THEN rest
            ELSE IF rest = <<>> THEN L[a + 1]
            ELSE L[a + 1] \o <<NL>> \o rest

HeaderPositions(L) == { i \in DOMAIN L : IsNumberedHeader(L[i]) }

NthPosition(S, k) == CHOOSE i \in S : Cardinality({ j \in S : j < i }) = k - 1

NextHeaderAfter(L, h) ==
    LET later == { i \in HeaderPositions(L) : i > h }
    IN IF later = {} THEN Len(L) + 1
       ELSE CHOOSE i \in later : \A j \in later : i <= j

\* C10: parseAIReport returns one section per numbered header line, in order,
\* titled with the text after the number, whose content is the trimmed content
\* lines between that header and the next one, joined in order.
C10_SectionsPerHeader ==
    pr_pc = "done" =>
        LET L == TrimmedLines(pr_report)
            H == HeaderPositions(L)
        IN /\ Len(pr_sections) = Cardinality(H)
           /\ \A k \in 1..Len(pr_sections) :
                LET h == NthPosition(H, k)
                IN /\ pr_sections[k].title = HeaderTitle(L[h])
                   /\ pr_sections[k].content =
                          JoinedContent(L, h, NextHeaderAfter(L, h))

\* a report with two sections, the first holding content
C10_Witness ==
    /\ pr_pc = "done"
    /\ Len(pr_sections) >= 2
    /\ pr_sections[1].content # <<>>

\* ---- detectFatigueWarnings ----
\* positions of the future-dated flights of the list passed in
UpcomingPositions == { i \in DOMAIN fw_flights :
                         fw_flights[i].hasPlanned /\ fw_flights[i].planned_at > 0 }

\* planned_at order, equal times in list order
PlannedBefore(i, j) ==
    \/ fw_flights[i].planned_at < fw_flights[j].planned_at
    \/ fw_flights[i].planned_at = fw_flights[j].planned_at /\ i < j

\* C8: detectFatigueWarnings flags exactly the future-dated flights that some
\* other future-dated flight precedes by at most 48 hours (all pairs), never
\* the first in planned_at order, and leaves the list passed in as it was.
C8_FatigueAllPairs ==
    fw_pc = "done" =>
        /\ fw_warnings =
              { fw_flights[j].id : j \in
                  { j \in UpcomingPositions :
                      \E i \in UpcomingPositions :
                          /\ i # j
                          /\ PlannedBefore(i, j)
                          /\ fw_flights[j].planned_at - fw_flights[i].planned_at
                                 <= 48 * 60 * 60 * 1000 } }
        /\ \A j \in UpcomingPositions :
              (\A i \in UpcomingPositions \ {j} : PlannedBefore(j, i))
                  => fw_flights[j].id \notin fw_warnings
        /\ fw_arg = fw_flights

\* a flight exactly 48 hours after its predecessor is flagged, listed out of order
C8_Witness ==
    /\ fw_pc = "done"
    /\ \E i, j \in UpcomingPositions :
          /\ j < i
          /\ fw_flights[j].planned_at - fw_flights[i].planned_at = 48 * 60 * 60 * 1000
          /\ fw_flights[j].id \in fw_warnings
          /\ fw_flights[i].id \notin fw_warnings

\* ---- Toaster ----
\* C3: every toast shown is dismissed automatically a fixed time after it first
\* appeared (3000 ms on display plus 300 ms of slide-out), whatever other
\* toasts are added or dismissed meanwhile: none is on screen later than that.
C3_FixedAutoDismiss ==
    \A i \in DOMAIN tk_toasts :
        tk_now - tk_toasts[i].shownAt <= 3000 + 300

\* ---- App ----
\* C5: once the initial session check has completed, App shows the dashboard
\* exactly when a session exists and the login form otherwise; after an auth
\* state change the view matches the session of the most recent auth event,
\* before any the session that getSession returned.
C5_ViewMatchesSession ==
    ap_getSession = "done" =>
        LET current == IF ap_lastEvent.seen THEN ap_lastEvent.session
                       ELSE ap_reply
        IN AppView = IF current = NoSession THEN "login" ELSE "dashboard"

\* ---- AirportAutocomplete ----
\* validity reported true only for a value of three or more characters that
\* equals, ignoring case, the ICAO code of a stored search result
AcValidOnlyIfListed ==
    ac_reported =>
        /\ Len(ac_value) >= 3
        /\ \E i \in DOMAIN ac_airports :
              ToUpperCase(ac_airports[i].icao) = ToUpperCase(ac_value)

\* C7: after every sequence of typing, selecting, clearing and search
\* responses, validity is reported true only for a value of three or more
\* characters matching a stored search result, and for a value shorter than
\* two characters the result list is empty and validity is false.
C7_ValidityAndShortValue ==
    /\ AcValidOnlyIfListed
    /\ Len(ac_value) < 2 => (ac_airports = <<>> /\ ~ac_reported)


(***************************************************************************)
(* Dashboard: saving a flight                                              *)
(***************************************************************************)
\* a text that trimming leaves empty
IsBlankText(text) == \A i \in DOMAIN text : text[i] \in WhiteSpace

InsertsIn(requests) == { r \in requests : r.kind = "insert" }

\* the step is a run of the saveFlight handler
SaveFlightStep == ds_event' = "saveFlight" /\ dsVars' # dsVars

\* what the claim requires of the form at the moment saveFlight is invoked
SaveConditions ==
    /\ ds_user # Null
    /\ ~IsBlankText(ds_departure)
    /\ ~IsBlankText(ds_arrival)
    /\ ds_departureValid
    /\ ds_arrivalValid
    /\ ~ds_plannedAt.empty

\* C1: saveFlight sends an insert to the flights table only if a user is
\* signed in, the trimmed departure and arrival are non-empty, both validity
\* flags are true and plannedAt is non-empty; in every other case it sends no
\* insert, shows one toast and leaves the form fields and the flight lists
\* unchanged.
C1_SaveOnlyWhenValid ==
    [][ SaveFlightStep =>
          IF SaveConditions
          THEN InsertsIn(db_inflight) \subseteq InsertsIn(db_inflight')
          ELSE /\ InsertsIn(db_inflight') = InsertsIn(db_inflight)
               /\ Len(ds_toasts') = 1
               /\ formVars' = formVars
               /\ listVars' = listVars ]_vars

\* an insert is in flight for the form " egll " -> KJFK via KLAX, after the
\* handler upper-cased and trimmed the fields
C1_Witness ==
    /\ ds_event = "saveFlight"
    /\ ds_savingFlight
    /\ \E r \in InsertsIn(db_inflight) :
         /\ r.row.departure = EGLL
         /\ r.row.arrival = KJFK
         /\ r.row.intermediates = [isNull |-> FALSE, list |-> <<KLAX>>]
         /\ r.row.user_id = ds_user


(***************************************************************************)
(* FlightDetail: what is rendered of a briefing                            *)
(***************************************************************************)
\* the texts of the hazard items among rendered elements, in order
RECURSIVE HazardTexts(_)
HazardTexts(elements) ==
    IF elements = <<>> THEN <<>>
    ELSE IF Head(elements).kind = "hazard"
         THEN <<Head(elements).text>> \o HazardTexts(Tail(elements))
         ELSE HazardTexts(Tail(elements))

\* C4: whenever the flight detail view holds a briefing whose hazards list is
\* non-empty, it renders exactly one hazard item per hazard string of the
\* list, in the order returned by the backend.
C4_HazardItemsRendered ==
    (fd_briefing.present /\ fd_briefing.hazards # <<>>) =>
        HazardTexts(RenderBriefing(fd_briefingLoading, fd_briefing,
                                   fd_activeTab)) = fd_briefing.hazards


(***************************************************************************)
(* Dashboard: the search panel                                             *)
(***************************************************************************)
\* the step is a run of the getBriefing handler
GetBriefingStep == ds_event' = "getBriefing" /\ dsVars' # dsVars

\* what the claim requires of the search panel when getBriefing is invoked
SearchConditions ==
    /\ ~IsBlankText(ds_searchDeparture)
    /\ ~IsBlankText(ds_searchArrival)
    /\ ds_searchDepartureValid
    /\ ds_searchArrivalValid

NavTimers(timers) == { t \in timers : t.kind = "nav" }

BriefNavs == SelectSeq(ds_navs, LAMBDA n : n.path = "/brief")

\* <departure, intermediates..., arrival> of an accepted click
ExpectedParts(click) ==
    <<ToUpperCase(Trim(click.departure))>>
    \o CleanIntermediates(click.intermediates)
    \o <<ToUpperCase(Trim(click.arrival))>>

\* a click either starts the animation and schedules one navigation, or
\* changes nothing of the animation, the timers and the navigations
GetBriefingStarts ==
    GetBriefingStep =>
        IF SearchConditions
        THEN /\ ds_planeAnimating'
             /\ Cardinality(NavTimers(ds_timers')) =
                    Cardinality(NavTimers(ds_timers)) + 1
             /\ ds_navs' = ds_navs
        ELSE /\ ds_planeAnimating' = ds_planeAnimating
             /\ ds_timers' = ds_timers
             /\ ds_navs' = ds_navs

\* every accepted click has navigated once, 2200 ms later and to its route,
\* or still waits with the button disabled; no two navigations are scheduled
OneNavigationPerClick ==
    /\ Cardinality(NavTimers(ds_timers)) <= 1
    /\ NavTimers(ds_timers) # {} => SearchButtonDisabled
    /\ Len(BriefNavs) + Cardinality(NavTimers(ds_timers)) = Len(ds_clicks)
    /\ \A i \in 1..Len(BriefNavs) :
         /\ BriefNavs[i].at = ds_clicks[i].at + 2200
         /\ DecodeURIComponent(BriefNavs[i].route)
              = JoinWords(ExpectedParts(ds_clicks[i]))
    /\ \A t \in NavTimers(ds_timers) :
         /\ t.due = ds_clicks[Len(ds_clicks)].at + 2200
         /\ t.due >= ds_now

\* C2: getBriefing starts a briefing only if the trimmed departure and arrival
\* are non-empty and both search validity flags are true; a rejected click
\* causes no animation and no navigation; an accepted click causes exactly one
\* navigation, 2200 ms later, to /brief?route=<departure, intermediates...,
\* arrival>, and the button is disabled while planeAnimating so that no second
\* navigation is scheduled in between.
C2_SearchBriefing == []OneNavigationPerClick /\ [][GetBriefingStarts]_vars

\* the dashboard has navigated to EGLL KLAX KJFK, 2200 ms after the click
C2_Witness ==
    /\ Len(ds_clicks) = 1
    /\ Len(ds_navs) = 1
    /\ ds_navs[1].path = "/brief"
    /\ ds_navs[1].at = ds_clicks[1].at + 2200
    /\ SplitWords(DecodeURIComponent(ds_navs[1].route), 1, <<>>)
         = <<EGLL, KLAX, KJFK>>
    /\ fd_flight.intermediates = <<KLAX>>

(***************************************************************************)
(* The flights table                                                       *)
(***************************************************************************)
RowIdsOf(rows) == { r.id : r \in rows }

\* a row of the table is the same after the step, or gone
RowsOnlyDeleted ==
    \A r \in db_rows : r \in db_rows' \/ r.id \notin RowIdsOf(db_rows')

\* C6: the only requests the client sends to the flights table are insert,
\* select and delete; once a row has been created, no field of it is changed
\* before it is deleted.
C6_RowsNeverMutated ==
    /\ [](db_log \subseteq {"insert", "select", "delete"})
    /\ [](\A r \in db_inflight : r.kind \in {"insert", "select", "delete"})
    /\ [][RowsOnlyDeleted]_vars

\* a flight was created and another deleted, all three kinds of request sent
C6_Witness ==
    /\ db_log = {"insert", "select", "delete"}
    /\ 3 \in RowIdsOf(db_rows)
    /\ 2 \notin RowIdsOf(db_rows)

(***************************************************************************)
(* C11: on the map page, once Leaflet has loaded and the airport list of   *)
(* the route has been fetched, a map with one marker per airport that has  *)
(* coordinates is eventually drawn, whichever of the two completed first.  *)
(***************************************************************************)
RECURSIVE IcaosWithCoordinates(_)
IcaosWithCoordinates(list) ==
    IF list = <<>> THEN <<>>
    ELSE (IF Head(list).latitude_deg # NoCoord
             /\ Head(list).longitude_deg # NoCoord
          THEN <<Head(list).icao>> ELSE <<>>)
         \o IcaosWithCoordinates(Tail(list))

AirportListFetched == mp_fetch \in {"analyze", "done"}

MapDrawnForList ==
    /\ mp_map.drawn
    /\ mp_map.markers = IcaosWithCoordinates(mp_list)

C11_MapEventuallyDrawn == (mp_L /\ AirportListFetched) ~> MapDrawnForList

(***************************************************************************)
(* C12: generateThunderstormPolygon returns exactly 12 points, the i-th at *)
(* angle 30 * i degrees around (lat, lon) (0 degrees is due north, 90 due  *)
(* east), and every coordinate is a finite number, also at the poles.      *)
(***************************************************************************)
\* a < b for finite numbers: the sign of a - b
FLess(a, b) ==
    LET diff == FAdd(a, [b EXCEPT !.s = -b.s])
    IN diff.k = "fin" /\ diff.m # 0 /\ diff.s = -1

IsFinite(a) == a.k = "fin"

PointAtAngle(point, lat, lon, angle) ==
    /\ angle \in {0, 30, 60, 300, 330} => FLess(lat, point[1])
    /\ angle \in {120, 150, 180, 210, 240} => FLess(point[1], lat)
    /\ angle \in {30, 60, 90, 120, 150} => FLess(lon, point[2])
    /\ angle \in {210, 240, 270, 300, 330} => FLess(point[2], lon)
    /\ angle = 0 => point[2] = lon

C12_PolygonTwelveFinitePoints ==
    pg_pc = "done" =>
        /\ Len(pg_points) = 12
        /\ \A p \in 1..12 :
            /\ IsFinite(pg_points[p][1])
            /\ IsFinite(pg_points[p][2])
            /\ PointAtAngle(pg_points[p], FromInt(pg_lat), FromInt(pg_lon),
                            30 * (p - 1))

C12_Witness ==
    /\ pg_pc = "done"
    /\ pg_lat = 90
    /\ Len(pg_points) = 12
    /\ IsFinite(pg_points[4][2])

(***************************************************************************)
(* C13: once every briefing request of the flight detail view has          *)
(* completed, the briefing shown is the response to the most recently      *)
(* issued request, whatever order the responses arrived in.                *)
(***************************************************************************)
LatestIssued == fd_callNo - 1

CompletionOf(no) ==
    fd_done[CHOOSE i \in 1..Len(fd_done) : fd_done[i].no = no]

C13_LatestResponseShown ==
    (/\ fd_mounted
     /\ fd_calls = {}
     /\ LatestIssued >= 1
     /\ CompletionOf(LatestIssued).ok)
    => fd_briefing = CompletionOf(LatestIssued).data

(***************************************************************************)
(* C14: briefingLoading is true whenever an analyze-route request issued   *)
(* by fetchBriefing is still in flight; it is false only when none is.     *)
(***************************************************************************)
AnalyzeInFlight == \E call \in fd_calls : call.phase = "fetch"

C14_LoadingWhileInFlight ==
    (fd_mounted /\ AnalyzeInFlight) => fd_briefingLoading

(***************************************************************************)
(* C15: when the analyze-route request fails, fetchBriefing keeps the      *)
(* briefing and lastRefreshedAt it held, shows one 'Briefing failed'       *)
(* toast, records the error and marks the route state shared with the map  *)
(* as loaded, and resets briefingLoading; with an empty route it does      *)
(* nothing at all.                                                         *)
(***************************************************************************)
BriefingFailsStep ==
    /\ Len(fd_done') = Len(fd_done) + 1
    /\ ~fd_done'[Len(fd_done')].ok

FailureHandled ==
    BriefingFailsStep =>
        /\ fd_briefing' = fd_briefing
        /\ fd_lastRefreshedAt' = fd_lastRefreshedAt
        /\ fd_toasts' = <<"Briefing failed">>
        /\ fd_window'.error
        /\ fd_window'.loaded
        /\ ~fd_briefingLoading'

EmptyRouteDoesNothing ==
    (fd_mounted' /\ RouteOf(fd_flight') = <<>>) =>
        /\ fd_calls' = {}
        /\ fd_callNo' = fd_callNo
        /\ ~fd_briefingLoading'
        /\ fd_window' = fd_window
        /\ fd_briefing' = fd_briefing
        /\ "Briefing failed" \notin {fd_toasts'[i] : i \in 1..Len(fd_toasts')}

C15_FailureKeepsBriefing == [][FailureHandled /\ EmptyRouteDoesNothing]_vars

C15_Witness ==
    /\ fd_done # <<>>
    /\ ~fd_done[Len(fd_done)].ok
    /\ fd_event = "briefingArrives"
    /\ fd_briefing.present
    /\ fd_lastRefreshedAt.set
    /\ fd_window.loaded

(***************************************************************************)
(* C16: however the flight detail view is opened (flight id, route         *)
(* parameter, or neither), loadingFlight eventually becomes false; when    *)
(* the flight cannot be loaded a 'Failed to load flight' toast is shown    *)
(* and no briefing request is sent.                                        *)
(***************************************************************************)
LoadFailsStep ==
    /\ fd_event' \in {"mount", "loadSettles"}
    /\ fdVars' # fdVars
    /\ ~fd_loadingFlight'
    /\ ~fd_flight'.present

LoadFailureToasted ==
    LoadFailsStep =>
        /\ fd_toasts' = <<"Failed to load flight">>
        /\ fd_calls' = {}
        /\ fd_callNo' = 1

C16_LoadingFlightEnds ==
    /\ fd_mounted ~> ~fd_loadingFlight
    /\ [][LoadFailureToasted]_vars

(***************************************************************************)
(* C17: the flight detail view's detectFatigueWarning returns a warning    *)
(* for a saved upcoming flight exactly when the same user has a previous   *)
(* (earlier-planned) upcoming flight within 48 hours of it; never for an   *)
(* ad-hoc route, a flight without a planned time, or a failed query.       *)
(***************************************************************************)
UpcomingRowsOf(uid) ==
    { r \in fq_rows : r.user_id = uid /\ r.hasPlanned /\ r.planned_at > 0 }

HasPreviousWithin48h(f) ==
    \E g \in UpcomingRowsOf(f.user_id) :
        /\ g.id # f.id
        /\ g.planned_at <= f.planned_at
        /\ f.planned_at - g.planned_at <= 48 * MsPerHour

C17_WarningIffPreviousFlight ==
    fq_pc = "done" =>
        (fq_detail <=>
            /\ fq_ok
            /\ \E f \in UpcomingRowsOf("u1") :
                  f.id = fq_flightId /\ HasPreviousWithin48h(f))

(***************************************************************************)
(* C18: for every saved upcoming flight the dashboard's FATIGUE RISK badge *)
(* and the flight detail view's fatigue warning agree when both look at    *)
(* the same flights of the user at the same time.                          *)
(***************************************************************************)
C18_BadgeAgreesWithDetail ==
    (/\ fq_pc = "done"
     /\ fq_ok
     /\ \E f \in UpcomingRowsOf("u1") : f.id = fq_flightId)
    => (fq_badge <=> fq_detail)

(***************************************************************************)
(* C19: for any departure, arrival and ordered intermediates the search    *)
(* panel accepts, the flight the detail view synthesises from the          *)
(* /brief?route= URL has the same departure, arrival and ordered           *)
(* intermediates, and the airports sent to analyze-route are exactly       *)
(* [departure, intermediates..., arrival].                                 *)
(***************************************************************************)
LastClick == ds_clicks[Len(ds_clicks)]

AcceptedDeparture == ToUpperCase(Trim(LastClick.departure))
AcceptedArrival == ToUpperCase(Trim(LastClick.arrival))
AcceptedIntermediates == CleanIntermediates(LastClick.intermediates)

C19_RouteRoundTrip ==
    (ds_event = "navTimer" /\ fd_mounted /\ ds_clicks # <<>>) =>
        /\ fd_flight.present
        /\ fd_flight.departure = AcceptedDeparture
        /\ fd_flight.arrival = AcceptedArrival
        /\ fd_flight.intermediates = AcceptedIntermediates
        /\ fd_calls # {}
        /\ \A call \in fd_calls :
              call.airports = <<AcceptedDeparture>> \o AcceptedIntermediates
                                  \o <<AcceptedArrival>>

(***************************************************************************)
(* C20: reloadFlights puts every fetched row in exactly one of the two     *)
(* lists: Upcoming iff planned_at is set and not earlier than the time of  *)
(* the reload, Past otherwise; Upcoming keeps the fetched order and Past   *)
(* is the exact reverse of the fetched order of its rows.                  *)
(***************************************************************************)
Occurrences(list, r) == Cardinality({ i \in DOMAIN list : list[i] = r })

FetchedPosition(r) == CHOOSE i \in DOMAIN rl_data : rl_data[i] = r

IsUpcomingRow(r) == r.hasPlanned /\ r.planned_at >= rl_now

C20_ReloadPartitionsRows ==
    rl_pc = "done" =>
        /\ \A i \in DOMAIN rl_data :
              /\ Occurrences(rl_upcoming, rl_data[i])
                    = (IF IsUpcomingRow(rl_data[i]) THEN 1 ELSE 0)
              /\ Occurrences(rl_past, rl_data[i])
                    = (IF IsUpcomingRow(rl_data[i]) THEN 0 ELSE 1)
        /\ Len(rl_upcoming) + Len(rl_past) = Len(rl_data)
        /\ \A i, j \in DOMAIN rl_upcoming :
              i < j => FetchedPosition(rl_upcoming[i])
                          < FetchedPosition(rl_upcoming[j])
        /\ \A i, j \in DOMAIN rl_past :
              i < j => FetchedPosition(rl_past[i]) > FetchedPosition(rl_past[j])

C20_Witness ==
    /\ rl_pc = "done"
    /\ Len(rl_past) = 2
    /\ ~rl_past[1].hasPlanned
    /\ rl_past[2].hasPlanned
    /\ Len(rl_upcoming) = 1
    /\ rl_upcoming[1].planned_at = rl_now

(***************************************************************************)
(* C21: when several reloadFlights calls overlap, then after all of them   *)
(* have completed the Upcoming and Past lists show the result of the most  *)
(* recently started reload, whatever order the responses arrive in.        *)
(***************************************************************************)
ReloadPending ==
    \E r \in db_inflight \cup db_replies :
        r.kind = "select" /\ r.origin = "reload"

LatestReload ==
    CHOOSE i \in DOMAIN ds_reloads :
        \A j \in DOMAIN ds_reloads : ds_reloads[j].no <= ds_reloads[i].no

C21_LatestReloadShown ==
    (/\ ds_mounted
     /\ ~ReloadPending
     /\ ds_reloads # <<>>
     /\ ds_reloads[LatestReload].ok)
    => /\ ds_upcomingFlights = ds_reloads[LatestReload].upcoming
       /\ ds_pastFlights = ds_reloads[LatestReload].past

(***************************************************************************)
(* C22: while a deleteFlight(id) is pending, from the click until its      *)
(* delete request has completed, deletingFlightId equals id, and it is     *)
(* null only when no delete is pending, for any interleaving of delete     *)
(* clicks on different flights or repeated clicks on the same flight.      *)
(***************************************************************************)
PendingDeletes ==
    { t.id : t \in { x \in ds_timers : x.kind = "delete" } }
    \cup { r.id : r \in { x \in db_inflight \cup db_replies :
                             x.kind = "delete" } }

C22_DeletingFlightIdTracksPending ==
    ds_mounted =>
        /\ \A id \in PendingDeletes : ds_deletingFlightId = id
        /\ ds_deletingFlightId = NoId => PendingDeletes = {}

(***************************************************************************)
(* C23: in every quiescent state of the Add Flight form the planned time   *)
(* held by the Dashboard and the date and time shown by the picker agree:  *)
(* plannedAt is non-empty exactly when the picker shows both a date and a  *)
(* time, in particular after a successful saveFlight has reset the form,   *)
(* so a form that displays a complete planned time is never rejected with  *)
(* 'Missing time'.                                                         *)
(***************************************************************************)
PickerComplete == ~ds_picker.date.empty /\ ~ds_picker.time.empty

MissingTimeStep ==
    /\ ds_event' = "saveFlight"
    /\ ds_toasts' = <<"Missing time">>

C23_PlannedAtAgreesWithPicker ==
    /\ [](ds_mounted => (~ds_plannedAt.empty <=> PickerComplete))
    /\ [][MissingTimeStep => ~PickerComplete]_vars

(***************************************************************************)
(* C24: at any time at most one Leaflet map instance created by RouteMap   *)
(* is alive and window.__routeMap refers to it: whenever the route codes,  *)
(* the airport info or the METARs change, or the component unmounts, the   *)
(* existing instance is removed before any new one is created, also when   *)
(* the map initialisation fails part-way with an exception.                *)
(***************************************************************************)
C24_OneLiveRouteMap ==
    /\ Cardinality(rm_maps) <= 1
    /\ rm_maps # {} => rm_routeMap \in rm_maps
    /\ rm_routeMap # NoInstance => rm_routeMap \in rm_maps
    /\ ~rm_mounted => rm_maps = {}

====
